---- MODULE Spec2Model ----
(***************************************************************************)
(* State-machine model of src-tauri/src/lib.rs: the redis branch of        *)
(* execute_query (script tokenizer and executor), alter_table (DDL         *)
(* translation and execution) and the mysql and postgresql branches of     *)
(* execute_query (conversion of the cells of a result set).                *)
(*                                                                         *)
(* Text that the code inspects character by character (script lines, the   *)
(* database name, column comments) is a sequence of one-character strings. *)
(* Text that is only passed through (identifiers, reply payloads, error    *)
(* messages) is a TLA+ string.                                              *)
(***************************************************************************)
EXTENDS Integers, Sequences, FiniteSets, TLC

(***************************************************************************)
(* Bounds of the model.                                                     *)
(***************************************************************************)
\* longest single script line drawn from the whole alphabet
MaxLen == 3
\* longest script assembled from the named lines
MaxLines == 2
\* longest column comment
MaxComment == 2
\* most member columns of an index
MaxIndexCols == 2

(***************************************************************************)
(* Generic sequence helpers.                                                *)
(***************************************************************************)
RECURSIVE SeqsUpTo(_, _)
SeqsUpTo(S, n) ==
    IF n = 0 THEN {<<>>}
    ELSE LET shorter == SeqsUpTo(S, n - 1)
         IN  shorter \cup {Append(s, x) : s \in {t \in shorter : Len(t) = n - 1}, x \in S}

RECURSIVE JoinWith(_, _)
JoinWith(ss, sep) ==
    IF ss = <<>> THEN <<>>
    ELSE IF Len(ss) = 1 THEN ss[1]
    ELSE ss[1] \o sep \o JoinWith(Tail(ss), sep)

IsPrefix(p, s) == Len(p) <= Len(s) /\ SubSeq(s, 1, Len(p)) = p

NoneOpt == [some |-> FALSE, v |-> <<>>]
SomeOpt(x) == [some |-> TRUE, v |-> x]

(***************************************************************************)
(* char::is_whitespace, str::trim, str::lines.                              *)
(***************************************************************************)
IsWhitespace(c) == c \in {" ", "\t", "\r", "\n"}

RECURSIVE TrimStart(_)
TrimStart(s) ==
    IF s # <<>> /\ IsWhitespace(Head(s)) THEN TrimStart(Tail(s)) ELSE s

RECURSIVE TrimEnd(_)
TrimEnd(s) ==
    IF s # <<>> /\ IsWhitespace(s[Len(s)]) THEN TrimEnd(SubSeq(s, 1, Len(s) - 1)) ELSE s

\* variant: trim_start in place of trim
TrimStartOnly(s) == TrimStart(s)

Trim(s) == TrimEnd(TrimStart(s))

\* one line without its terminator: "\n", or "\r\n"
StripCR(s) == IF s # <<>> /\ s[Len(s)] = "\r" THEN SubSeq(s, 1, Len(s) - 1) ELSE s

RECURSIVE LinesFrom(_, _, _)
LinesFrom(text, i, cur) ==
    IF i > Len(text) THEN (IF cur = <<>> THEN <<>> ELSE <<cur>>)
    ELSE IF text[i] = "\n" THEN <<StripCR(cur)>> \o LinesFrom(text, i + 1, <<>>)
    ELSE LinesFrom(text, i + 1, Append(cur, text[i]))

\* query.lines(): a trailing line terminator opens no further line
Lines(text) == LinesFrom(text, 1, <<>>)

(***************************************************************************)
(* The quote parser of the redis branch.                                    *)
(***************************************************************************)
TokInit == [args |-> <<>>, current |-> <<>>, in_quotes |-> FALSE, escape |-> FALSE]

\* variant: a backslash escapes only outside a quoted span
TokStepEscapeOutsideQuotes(st, c) ==
    IF st.escape THEN [st EXCEPT !.current = Append(@, c), !.escape = FALSE]
    ELSE IF c = "\\" /\ ~st.in_quotes THEN [st EXCEPT !.escape = TRUE]
    ELSE IF c = "\"" THEN [st EXCEPT !.in_quotes = ~@]
    ELSE IF IsWhitespace(c) /\ ~st.in_quotes THEN
        (IF st.current # <<>>
         THEN [st EXCEPT !.args = Append(@, st.current), !.current = <<>>]
         ELSE st)
    ELSE [st EXCEPT !.current = Append(@, c)]

\* variant: a closing quote ends the token, an empty one included
TokStepKeepEmpty(st, c) ==
    IF st.escape THEN [st EXCEPT !.current = Append(@, c), !.escape = FALSE]
    ELSE IF c = "\\" THEN [st EXCEPT !.escape = TRUE]
    ELSE IF c = "\"" THEN
        (IF st.in_quotes
         THEN [st EXCEPT !.in_quotes = FALSE, !.args = Append(@, st.current), !.current = <<>>]
         ELSE [st EXCEPT !.in_quotes = TRUE])
    ELSE IF IsWhitespace(c) /\ ~st.in_quotes THEN
        (IF st.current # <<>>
         THEN [st EXCEPT !.args = Append(@, st.current), !.current = <<>>]
         ELSE st)
    ELSE [st EXCEPT !.current = Append(@, c)]

TokStep(st, c) ==
    IF st.escape THEN [st EXCEPT !.current = Append(@, c), !.escape = FALSE]
    ELSE IF c = "\\" THEN [st EXCEPT !.escape = TRUE]
    ELSE IF c = "\"" THEN [st EXCEPT !.in_quotes = ~@]
    ELSE IF IsWhitespace(c) /\ ~st.in_quotes THEN
        (IF st.current # <<>>
         THEN [st EXCEPT !.args = Append(@, st.current), !.current = <<>>]
         ELSE st)
    ELSE [st EXCEPT !.current = Append(@, c)]

RECURSIVE TokLoop(_, _, _)
TokLoop(s, i, st) == IF i > Len(s) THEN st ELSE TokLoop(s, i + 1, TokStep(st, s[i]))

Tokenize(trimmed) ==
    LET st == TokLoop(trimmed, 1, TokInit)
    IN  IF st.current # <<>> THEN Append(st.args, st.current) ELSE st.args

\* variant: only `#` marks a comment
IsSkippedHashOnly(trimmed) ==
    \/ trimmed = <<>>
    \/ IsPrefix(<<"#">>, trimmed)

IsSkipped(trimmed) ==
    \/ trimmed = <<>>
    \/ IsPrefix(<<"#">>, trimmed)
    \/ IsPrefix(<<"-", "-">>, trimmed)

(***************************************************************************)
(* redis::Value, the String conversion of redis::FromRedisValue and the    *)
(* Debug rendering, as used by redis_value_to_string.                       *)
(***************************************************************************)
VNil == [kind |-> "nil", text |-> "", items |-> <<>>]
VOkay == [kind |-> "okay", text |-> "", items |-> <<>>]
VStatus(word) == [kind |-> "status", text |-> word, items |-> <<>>]
VInt(digits) == [kind |-> "int", text |-> digits, items |-> <<>>]
\* a bulk string whose bytes are valid UTF-8
VData(str) == [kind |-> "data", text |-> str, items |-> <<>>]
\* a bulk string whose bytes are not valid UTF-8; text is the byte list
VBinData(bytes) == [kind |-> "bindata", text |-> bytes, items |-> <<>>]
VBulk(vs) == [kind |-> "bulk", text |-> "", items |-> vs]

ReplyValues ==
    {VNil, VOkay, VStatus("PONG"), VInt("7"), VData("v"), VBinData("[255]"),
     VBulk(<<VData("v"), VNil>>)}

ConvOk(str) == [ok |-> TRUE, text |-> str]
ConvErr == [ok |-> FALSE, text |-> ""]

\* The outcomes of from_redis_value::<String>(&v).  An integer reply converts
\* in some releases of the client library and is a type error in others.
FromRedisValueString(v) ==
    CASE v.kind = "data" -> {ConvOk(v.text)}
      [] v.kind = "status" -> {ConvOk(v.text)}
      [] v.kind = "okay" -> {ConvOk("OK")}
      [] v.kind = "int" -> {ConvOk(v.text), ConvErr}
      [] OTHER -> {ConvErr}

RECURSIVE DebugValue(_)
RECURSIVE DebugItems(_)
DebugItems(vs) ==
    IF vs = <<>> THEN ""
    ELSE IF Len(vs) = 1 THEN DebugValue(vs[1])
    ELSE DebugValue(vs[1]) \o ", " \o DebugItems(Tail(vs))

\* format!("{:?}", v)
DebugValue(v) ==
    CASE v.kind = "nil" -> "nil"
      [] v.kind = "okay" -> "ok"
      [] v.kind = "status" -> "status(\"" \o v.text \o "\")"
      [] v.kind = "int" -> "int(" \o v.text \o ")"
      [] v.kind = "data" -> "string-data('\"" \o v.text \o "\"')"
      [] v.kind = "bindata" -> "binary-data(" \o v.text \o ")"
      [] v.kind = "bulk" -> "bulk(" \o DebugItems(v.items) \o ")"

\* variant: every reply goes through the generic conversion
redis_value_to_string_generic(v, conv) ==
    IF conv.ok THEN conv.text ELSE DebugValue(v)

\* conv is the outcome of the String conversion of v
redis_value_to_string(v, conv) ==
    CASE v.kind = "nil" -> "(nil)"
      [] v.kind = "okay" -> "OK"
      [] OTHER -> IF conv.ok THEN conv.text ELSE DebugValue(v)

\* Result<redis::Value, RedisError> of one query_async, with the outcome of
\* the String conversion the reply would have
OkReply(v, conv) == [ok |-> TRUE, val |-> v, conv |-> conv, err |-> ""]
ErrReply(msg) == [ok |-> FALSE, val |-> VNil, conv |-> ConvErr, err |-> msg]

CmdOutcomes ==
    UNION {{OkReply(v, c) : c \in FromRedisValueString(v)} : v \in ReplyValues}
        \cup {ErrReply("ERR unknown command")}

(***************************************************************************)
(* The database index of the redis branch: "db0 (15)", "db0", "0".          *)
(***************************************************************************)
\* db.split_whitespace().next().unwrap_or("")
RECURSIVE TakeWord(_)
TakeWord(s) ==
    IF s = <<>> \/ IsWhitespace(Head(s)) THEN <<>> ELSE <<Head(s)>> \o TakeWord(Tail(s))

FirstWord(s) == TakeWord(TrimStart(s))

Digits == <<"0", "1", "2", "3", "4", "5", "6", "7", "8", "9">>
IsDigit(c) == \E d \in 1..10 : Digits[d] = c
DigitVal(c) == (CHOOSE d \in 1..10 : Digits[d] = c) - 1

RECURSIVE DigitsVal(_, _)
DigitsVal(s, acc) == IF s = <<>> THEN acc ELSE DigitsVal(Tail(s), 10 * acc + DigitVal(Head(s)))

\* str::parse::<i32>() followed by unwrap_or(0), for texts within the i32 range
ParseOrZero(s) ==
    LET signed == s # <<>> /\ Head(s) \in {"+", "-"}
        body == IF signed THEN Tail(s) ELSE s
    IN  IF body = <<>> \/ \E i \in 1..Len(body) : ~IsDigit(body[i]) THEN 0
        ELSE IF signed /\ Head(s) = "-" THEN 0 - DigitsVal(body, 0)
        ELSE DigitsVal(body, 0)

DbIndex(db) ==
    LET db_part == FirstWord(db)
    IN  IF db_part = <<>> THEN 0
        ELSE IF IsPrefix(<<"d", "b">>, db_part)
             THEN ParseOrZero(SubSeq(db_part, 3, Len(db_part)))
             ELSE ParseOrZero(db_part)

\* the decimal text of an integer, as cmd.arg(db_index) writes it
RECURSIVE NatChars(_)
NatChars(n) == IF n < 10 THEN <<Digits[n + 1]>> ELSE Append(NatChars(n \div 10), Digits[(n % 10) + 1])

DecimalChars(n) == IF n < 0 THEN <<"-">> \o NatChars(0 - n) ELSE NatChars(n)

(***************************************************************************)
(* Inputs of execute_query.                                                 *)
(***************************************************************************)
Alphabet == {"a", " ", "\"", "\\", "#", "-"}

\* GET k
LineGet ==
    <<"G", "E", "T", " ", "k">>

LinePing ==
    <<"P", "I", "N", "G">>

\* a command with a quoted argument, leading and trailing whitespace
LineSetQuoted ==
    <<" ", "S", "E", "T", " ", "k", " ", "\"", "a", " ", "b", "\"", "\t">>

\* HSET myhash "field one" value\"x
LineExample ==
    <<"H", "S", "E", "T", " ", "m", "y", "h", "a", "s", "h", " ", "\"", "f",
      "i", "e", "l", "d", " ", "o", "n", "e", "\"", " ", "v", "a", "l", "u",
      "e", "\\", "\"", "x">>

\* whitespace only
LineSpaces ==
    <<" ", " ">>

\* # comment
LineComment ==
    <<"#", " ", "c", "o", "m", "m", "e", "n", "t">>

\* --x
LineDashComment ==
    <<"-", "-", "x">>

\* an indented comment
LineIndentedComment ==
    <<" ", "#", "c">>

\* only a pair of quotes
LineQuotesOnly ==
    <<"\"", "\"">>

\* SET k "": an empty quoted span as the last argument
LineSetEmpty ==
    <<"S", "E", "T", " ", "k", " ", "\"", "\"">>

LineBlank == <<>>

NamedLines ==
    {LineGet, LineSetQuoted, LineBlank, LineSpaces, LineComment, LineDashComment,
     LineIndentedComment, LineQuotesOnly}

NL == <<"\n">>

\* five lines, the second blank and the fourth a comment
ScriptFiveLines ==
    JoinWith(<<LineGet, LineBlank, LineSetQuoted, LineComment, LineExample>>, NL)

\* five commands
ScriptFiveCommands ==
    JoinWith(<<LineGet, LinePing, LineGet, LinePing, LineGet>>, NL)

\* "\r\n" line ends and a final terminator
ScriptCRLF == LineGet \o <<"\r", "\n">> \o LineSetQuoted \o <<"\r", "\n">>

NamedScripts ==
    {JoinWith(ls, NL) : ls \in SeqsUpTo(NamedLines, MaxLines)}
        \cup {ScriptFiveLines, ScriptFiveCommands, ScriptCRLF, LineSetEmpty}

SingleLineScripts == SeqsUpTo(Alphabet, MaxLen)

RedisConfig(pw, db) == [db_type |-> "redis", password |-> pw, database |-> db]

PlainConfig == RedisConfig(NoneOpt, NoneOpt)

Passwords == {NoneOpt, SomeOpt(<<>>), SomeOpt(<<"p", "w">>)}

Databases ==
    {NoneOpt, SomeOpt(<<>>), SomeOpt(<<"d", "b", "1", " ", "(", "1", "5", ")">>),
     SomeOpt(<<"2">>), SomeOpt(<<"d", "b", "x">>), SomeOpt(<<" ">>), SomeOpt(<<"-", "1">>)}

EqInputs ==
    {[config |-> PlainConfig, query |-> q] : q \in NamedScripts \cup SingleLineScripts}
        \cup {[config |-> RedisConfig(pw, db), query |-> q] :
                pw \in Passwords, db \in Databases, q \in {LineGet, ScriptCRLF}}
        \cup {[config |-> [PlainConfig EXCEPT !.db_type = "sqlite"], query |-> LineGet]}

(***************************************************************************)
(* ColumnDef, IndexDef, AlterOperation and the statements of alter_table.   *)
(* A statement is the sequence of the pieces format! puts together; its     *)
(* text is their concatenation.  A comment and a default value are spliced  *)
(* in character by character.                                               *)
(***************************************************************************)
NoneStr == [some |-> FALSE, v |-> ""]
NoneBool == [some |-> FALSE, v |-> FALSE]

ColumnDef(name, type_name, is_pk, is_nullable, default_value, comment) ==
    [name |-> name, type_name |-> type_name, is_pk |-> is_pk,
     is_nullable |-> is_nullable, default_value |-> default_value, comment |-> comment]

IndexDef(name, columns, is_unique) ==
    [name |-> name, columns |-> columns, is_unique |-> is_unique, is_pk |-> FALSE,
     comment |-> NoneOpt]

NoColumnDef == [some |-> FALSE, v |-> ColumnDef("", "", FALSE, NoneBool, NoneOpt, NoneOpt)]
NoIndexDef == [some |-> FALSE, v |-> IndexDef("", <<>>, FALSE)]

AlterOperation(op_type, column_name, new_name, column_def, index_def, index_name) ==
    [op_type |-> op_type, column_name |-> column_name, new_name |-> new_name,
     column_def |-> column_def, index_def |-> index_def, index_name |-> index_name]

\* c.replace("'", "''")
RECURSIVE EscapeQuotes(_)
EscapeQuotes(c) ==
    IF c = <<>> THEN <<>>
    ELSE (IF Head(c) = "'" THEN <<"'", "'">> ELSE <<Head(c)>>) \o EscapeQuotes(Tail(c))

\* variant: a column named twice is listed once
RECURSIVE JoinColumnsDistinct(_)
JoinColumnsDistinct(cols) ==
    IF cols = <<>> THEN <<>>
    ELSE IF \E i \in 2..Len(cols) : cols[i] = cols[1] THEN JoinColumnsDistinct(Tail(cols))
    ELSE IF Len(cols) = 1 THEN <<cols[1]>>
    ELSE <<cols[1], ", ">> \o JoinColumnsDistinct(Tail(cols))

\* idx.columns.join(", ")
RECURSIVE JoinColumns(_)
JoinColumns(cols) ==
    IF cols = <<>> THEN <<>>
    ELSE IF Len(cols) = 1 THEN <<cols[1]>>
    ELSE <<cols[1], ", ">> \o JoinColumns(Tail(cols))

MysqlComment(col) ==
    IF col.comment.some
    THEN <<"COMMENT '">> \o EscapeQuotes(col.comment.v) \o <<"'">>
    ELSE <<"">>

\* variant: NULL only for a column known to be nullable
NullDefUnlessTrue(col) ==
    IF col.is_nullable.some /\ col.is_nullable.v = TRUE THEN "NULL" ELSE "NOT NULL"

NullDef(col) ==
    IF col.is_nullable.some /\ col.is_nullable.v = FALSE THEN "NOT NULL" ELSE "NULL"

\* format!("DEFAULT {}", d): the text of the default value as it is
DefaultDef(col) ==
    IF col.default_value.some THEN <<"DEFAULT ">> \o col.default_value.v ELSE <<"">>

PkDef(col) == IF col.is_pk THEN "PRIMARY KEY" ELSE ""

MysqlAddColumn(table, col) ==
    <<"ALTER TABLE ", table, " ADD COLUMN ", col.name, " ", col.type_name, " ",
      NullDef(col), " ">> \o DefaultDef(col) \o <<" ", PkDef(col), " ">> \o MysqlComment(col)

MysqlModifyColumn(table, col) ==
    <<"ALTER TABLE ", table, " MODIFY COLUMN ", col.name, " ", col.type_name, " ",
      NullDef(col), " ">> \o DefaultDef(col) \o <<" ">> \o MysqlComment(col)

\* variant: the mysql nullability clause, for postgresql
PgAddColumnWithNull(table, col) ==
    <<"ALTER TABLE ", table, " ADD COLUMN ", col.name, " ", col.type_name, " ", NullDef(col)>>

PgAddColumn(table, col) ==
    <<"ALTER TABLE ", table, " ADD COLUMN ", col.name, " ", col.type_name>>

PgModifyColumn(table, col) ==
    <<"ALTER TABLE ", table, " ALTER COLUMN ", col.name, " TYPE ", col.type_name>>

DropColumn(table, col_name) == <<"ALTER TABLE ", table, " DROP COLUMN ", col_name>>

\* variant: the two names change places
RenameColumnSwapped(table, col_name, new_name) ==
    <<"ALTER TABLE ", table, " RENAME COLUMN ", new_name, " TO ", col_name>>

RenameColumn(table, col_name, new_name) ==
    <<"ALTER TABLE ", table, " RENAME COLUMN ", col_name, " TO ", new_name>>

CreateIndex(table, idx) ==
    <<"CREATE ", (IF idx.is_unique THEN "UNIQUE" ELSE ""), " INDEX ", idx.name, " ON ",
      table, " (">> \o JoinColumns(idx.columns) \o <<")">>

\* variant: the postgresql form, for mysql
MysqlDropIndexByName(table, idx_name) == <<"DROP INDEX ", idx_name>>

MysqlDropIndex(table, idx_name) == <<"DROP INDEX ", idx_name, " ON ", table>>

PgDropIndex(idx_name) == <<"DROP INDEX ", idx_name>>

\* variant: the column is not qualified by its table
PgCommentQueryNoTable(table, col) ==
    <<"COMMENT ON COLUMN ", col.name, " IS '">> \o EscapeQuotes(col.comment.v) \o <<"'">>

PgCommentQuery(table, col) ==
    <<"COMMENT ON COLUMN ", table, ".", col.name, " IS '">>
        \o EscapeQuotes(col.comment.v) \o <<"'">>

Translated(sql) == [ok |-> TRUE, sql |-> sql, err |-> ""]
TranslationError(msg) == [ok |-> FALSE, sql |-> <<>>, err |-> msg]

\* the match that computes `query`, each `?` and `return Err` included
TranslateOperation(db_type, table, operation) ==
    LET op == operation.op_type
        WithColumnDef(Stmt(_, _)) ==
            IF operation.column_def.some
            THEN Translated(Stmt(table, operation.column_def.v))
            ELSE TranslationError("Missing column definition")
        Drop ==
            IF operation.column_name.some
            THEN Translated(DropColumn(table, operation.column_name.v))
            ELSE TranslationError("Missing column name")
        Rename ==
            IF ~operation.column_name.some THEN TranslationError("Missing column name")
            ELSE IF ~operation.new_name.some THEN TranslationError("Missing new name")
            ELSE Translated(RenameColumn(table, operation.column_name.v, operation.new_name.v))
        AddIndex ==
            IF operation.index_def.some
            THEN Translated(CreateIndex(table, operation.index_def.v))
            ELSE TranslationError("Missing index definition")
        DropIndex(Stmt(_)) ==
            IF operation.index_name.some
            THEN Translated(Stmt(operation.index_name.v))
            ELSE TranslationError("Missing index name")
        MysqlDrop(idx_name) == MysqlDropIndex(table, idx_name)
    IN  CASE db_type = "mysql" ->
                (CASE op = "add" -> WithColumnDef(MysqlAddColumn)
                   [] op = "modify" -> WithColumnDef(MysqlModifyColumn)
                   [] op = "drop" -> Drop
                   [] op = "rename" -> Rename
                   [] op = "add_index" -> AddIndex
                   [] op = "drop_index" -> DropIndex(MysqlDrop)
                   [] OTHER -> TranslationError("Unknown operation"))
          [] db_type = "postgresql" ->
                (CASE op = "add" -> WithColumnDef(PgAddColumn)
                   [] op = "modify" -> WithColumnDef(PgModifyColumn)
                   [] op = "drop" -> Drop
                   [] op = "rename" -> Rename
                   [] op = "add_index" -> AddIndex
                   [] op = "drop_index" -> DropIndex(PgDropIndex)
                   [] OTHER -> TranslationError("Unknown operation"))
          [] OTHER -> TranslationError("Unsupported database")

(***************************************************************************)
(* Inputs of alter_table.                                                   *)
(***************************************************************************)
CommentAlphabet == {"a", "'", "\\"}

Comments == {NoneOpt} \cup {SomeOpt(c) : c \in SeqsUpTo(CommentAlphabet, MaxComment)}

Nullabilities == {NoneBool, [some |-> TRUE, v |-> TRUE], [some |-> TRUE, v |-> FALSE]}

Defaults == {NoneOpt, SomeOpt(<<"0">>), SomeOpt(<<"a", "'">>)}

ColumnDefs ==
    {ColumnDef(nm, "INT", pk, nl, df, cm) :
        nm \in {"c1", "c2"}, pk \in BOOLEAN, nl \in Nullabilities, df \in Defaults, cm \in Comments}

IndexDefs ==
    {IndexDef("i1", cols, uq) : cols \in SeqsUpTo({"c1", "c2"}, MaxIndexCols), uq \in BOOLEAN}

SomeColumnDef(col) == [some |-> TRUE, v |-> col]
SomeIndexDef(idx) == [some |-> TRUE, v |-> idx]
SomeStr(str) == [some |-> TRUE, v |-> str]

OpTypes == {"add", "modify", "drop", "rename", "add_index", "drop_index", "truncate"}

\* the payload an operation reads ranges over all its values, absence
\* included; the other payloads are all absent or all present
AlterOperations ==
    LET cd0 == SomeColumnDef(ColumnDef("c1", "INT", FALSE, NoneBool, NoneOpt, NoneOpt))
        id0 == SomeIndexDef(IndexDef("i1", <<"c1">>, FALSE))
        ColumnDefsOf(op, rest) ==
            IF op \in {"add", "modify"} THEN {NoColumnDef} \cup {SomeColumnDef(c) : c \in ColumnDefs}
            ELSE IF rest THEN {cd0} ELSE {NoColumnDef}
        ColumnNamesOf(op, rest) ==
            IF op \in {"drop", "rename"} THEN {NoneStr, SomeStr("c1")}
            ELSE IF rest THEN {SomeStr("c1")} ELSE {NoneStr}
        NewNamesOf(op, rest) ==
            IF op = "rename" THEN {NoneStr, SomeStr("c2")}
            ELSE IF rest THEN {SomeStr("c2")} ELSE {NoneStr}
        IndexDefsOf(op, rest) ==
            IF op = "add_index" THEN {NoIndexDef} \cup {SomeIndexDef(i) : i \in IndexDefs}
            ELSE IF rest THEN {id0} ELSE {NoIndexDef}
        IndexNamesOf(op, rest) ==
            IF op = "drop_index" THEN {NoneStr, SomeStr("i1")}
            ELSE IF rest THEN {SomeStr("i1")} ELSE {NoneStr}
    IN  UNION {{AlterOperation(op, cn, nn, cd, id, ix) :
                    cn \in ColumnNamesOf(op, rest), nn \in NewNamesOf(op, rest),
                    cd \in ColumnDefsOf(op, rest), id \in IndexDefsOf(op, rest),
                    ix \in IndexNamesOf(op, rest)} :
               op \in OpTypes, rest \in BOOLEAN}

SqlConfig(db_type) == [db_type |-> db_type, password |-> NoneOpt, database |-> NoneOpt]

AtInputs ==
    {[config |-> SqlConfig(db), table |-> "t", operation |-> op] :
        db \in {"mysql", "postgresql", "sqlite"}, op \in AlterOperations}

(***************************************************************************)
(* execute_query, mysql and postgresql branches: the cells of a result set  *)
(* and their conversion to serde_json values.  An integer is a sign and     *)
(* the decimal digits of its magnitude, so that 64-bit values are exact.    *)
(***************************************************************************)
Dec(neg, mag) == [neg |-> neg, mag |-> mag]

Zero == Dec(FALSE, "0")

\* a <= b for magnitudes written in decimal without leading zeros
DecLe(a, b) ==
    \/ Len(a) < Len(b)
    \/ /\ Len(a) = Len(b)
       /\ \/ a = b
          \/ \E i \in 1..Len(a) :
                /\ SubSeq(a, 1, i - 1) = SubSeq(b, 1, i - 1)
                /\ DigitVal(SubSeq(a, i, i)) < DigitVal(SubSeq(b, i, i))

\* the magnitudes of MIN and MAX of the Rust integer types the handler asks for
IntRange(T) ==
    CASE T = "i8" -> [min |-> "128", max |-> "127"]
      [] T = "i16" -> [min |-> "32768", max |-> "32767"]
      [] T = "i32" -> [min |-> "2147483648", max |-> "2147483647"]
      [] T = "i64" -> [min |-> "9223372036854775808", max |-> "9223372036854775807"]
      [] T = "u64" -> [min |-> "0", max |-> "18446744073709551615"]

IntTypes == {"i8", "i16", "i32", "i64", "u64"}

\* n is a value of the integer type T
Fits(T, n) == IF n.neg THEN DecLe(n.mag, IntRange(T).min) ELSE DecLe(n.mag, IntRange(T).max)

\* what a cell holds natively; kind "null" is SQL NULL
Native(kind, b, n, s, bytes) == [kind |-> kind, b |-> b, n |-> n, s |-> s, bytes |-> bytes]

NullCell == Native("null", FALSE, Zero, "", <<>>)
IntCell(n) == Native("int", FALSE, n, "", <<>>)
BoolCell(b) == Native("bool", b, Zero, "", <<>>)
TextCell(s) == Native("text", FALSE, Zero, s, <<>>)

\* a column of a row: its name, the driver's type name, its native value,
\* and the Rust types try_get decodes it into
Cell(name, type_name, native, accepts) ==
    [name |-> name, type_name |-> type_name, native |-> native, accepts |-> accepts]

\* serde_json::Value
JsonValue(kind, b, n, s) == [kind |-> kind, b |-> b, n |-> n, s |-> s]

JNull == JsonValue("Null", FALSE, Zero, "")
JBool(b) == JsonValue("Bool", b, Zero, "")
JNumber(n) == JsonValue("Number", FALSE, n, "")
JFloat(s) == JsonValue("Float", FALSE, Zero, s)
JString(s) == JsonValue("String", FALSE, Zero, s)
JDocument(s) == JsonValue("Document", FALSE, Zero, s)

\* Result<Option<T>, Error> of row.try_get
GetErr == [ok |-> FALSE, some |-> FALSE, v |-> NullCell]
GetNone == [ok |-> TRUE, some |-> FALSE, v |-> NullCell]
GetSome(native) == [ok |-> TRUE, some |-> TRUE, v |-> native]

\* the integer column types of mysql as the driver names them
MysqlSigned == {"TINYINT", "SMALLINT", "MEDIUMINT", "INT", "BIGINT"}

MysqlUnsigned == {t \o " UNSIGNED" : t \in MysqlSigned}

SignedTypes == {"i8", "i16", "i32", "i64"}

\* the Rust types the driver decodes a column of type t into: try_get
\* fails with a type mismatch for any other.  mysql: a signed type for a
\* signed column, an unsigned for an unsigned one, and in a lenient build
\* either; postgresql: the one type of the same width.
Compatible(engine, t, lenient) ==
        IF engine = "mysql"
        THEN IF t \in MysqlSigned
             THEN SignedTypes \cup (IF lenient THEN {"u64"} ELSE {})
             ELSE IF t \in MysqlUnsigned
             THEN {"u64"} \cup (IF lenient THEN SignedTypes ELSE {})
             ELSE IF t = "BOOLEAN" THEN {"bool"} \cup SignedTypes
             ELSE IF t \in {"VARCHAR", "CHAR", "TEXT"} THEN {"String", "Vec<u8>"}
             ELSE {}
        ELSE IF t = "INT8" THEN {"i64"}
             ELSE IF t = "INT4" THEN {"i32"}
             ELSE IF t = "INT2" THEN {"i16"}
             ELSE IF t = "BOOL" THEN {"bool"}
             ELSE IF t \in {"VARCHAR", "TEXT"} THEN {"String"}
             ELSE {}

\* row.try_get::<Option<T>, _>(col.ordinal()): NULL is None for every T; a
\* type the column is not compatible with, or an integer out of T's range,
\* is an error
TryGet(engine, T, cell) ==
    IF cell.native.kind = "null" THEN GetNone
    ELSE IF T \notin cell.accepts THEN GetErr
    ELSE IF T \in IntTypes
         THEN IF Fits(T, cell.native.n) THEN GetSome(cell.native) ELSE GetErr
    ELSE IF T = "bool" /\ cell.native.kind = "int"
         THEN GetSome(BoolCell(cell.native.n.mag # "0"))
    ELSE GetSome(cell.native)

\* .unwrap_or(None)
UnwrapOrNone(r) == IF r.ok THEN r ELSE GetNone

\* the chrono types the handler asks for
ChronoTypes == {"NaiveDate", "NaiveTime", "NaiveDateTime", "DateTime<Utc>"}

\* v.to_string() of a chrono value whose fields are year, month, day or
\* hour, minute, second or all six: %Y-%m-%d, %H:%M:%S, both with a space
\* between, and " UTC" after a DateTime<Utc>
ChronoToString(T, fields) ==
    LET Pad(n, width) == LET t == ToString(n)
                         IN  SubSeq("0000", 1, width - Len(t)) \o t
        Date(f) == Pad(f[1], 4) \o "-" \o Pad(f[2], 2) \o "-" \o Pad(f[3], 2)
        Time(f) == Pad(f[1], 2) \o ":" \o Pad(f[2], 2) \o ":" \o Pad(f[3], 2)
    IN  IF T = "NaiveDate" THEN Date(fields)
        ELSE IF T = "NaiveTime" THEN Time(fields)
        ELSE Date(fields) \o " " \o Time(SubSeq(fields, 4, 6))
                \o (IF T = "DateTime<Utc>" THEN " UTC" ELSE "")

\* json!(v) for v: Option<T>, a chrono value by its to_string()
JsonOf(T, r) ==
    IF ~r.some THEN JNull
    ELSE IF T \in ChronoTypes THEN JString(ChronoToString(T, r.v.bytes))
    ELSE IF T \in IntTypes THEN JNumber(r.v.n)
    ELSE IF T = "bool" THEN JBool(r.v.b)
    ELSE IF T = "f64" THEN JFloat(r.v.s)
    ELSE IF T = "Json" THEN JDocument(r.v.s)
    ELSE JString(r.v.s)

StartsWith(s, prefix) == Len(prefix) <= Len(s) /\ SubSeq(s, 1, Len(prefix)) = prefix

Contains(s, part) == \E i \in 1..(Len(s) - Len(part) + 1) : SubSeq(s, i, i + Len(part) - 1) = part

\* to_uppercase over the letters type names are written with
ToUppercase(s) ==
    LET lower == "abcdefghijklmnopqrstuvwxyz"
        upper == "ABCDEFGHIJKLMNOPQRSTUVWXYZ"
        Up(c) == IF \E k \in 1..26 : SubSeq(lower, k, k) = c
                 THEN LET k == CHOOSE k \in 1..26 : SubSeq(lower, k, k) = c IN SubSeq(upper, k, k)
                 ELSE c
        RECURSIVE From(_)
        From(i) == IF i > Len(s) THEN "" ELSE Up(SubSeq(s, i, i)) \o From(i + 1)
    IN  From(1)

\* format!("{:02X}", b) over the bytes
RECURSIVE Hex(_)
Hex(bytes) ==
    LET digits == "0123456789ABCDEF"
        Digit(d) == SubSeq(digits, d + 1, d + 1)
    IN  IF bytes = <<>> THEN ""
        ELSE Digit(Head(bytes) \div 16) \o Digit(Head(bytes) % 16) \o Hex(Tail(bytes))

\* v.iter().take(n)
Take(v, n) == SubSeq(v, 1, IF Len(v) < n THEN Len(v) ELSE n)

\* a preview that counts the bytes it shows instead of the bytes it was given
BinaryPreviewShownLength(engine, cell) ==
    LET r == TryGet(engine, "Vec<u8>", cell)
        v == r.v.bytes
        suffix == IF Len(v) > 32 THEN "... (" \o ToString(Len(Take(v, 32))) \o " bytes)" ELSE ""
    IN  IF r.ok /\ r.some THEN JString("0x" \o Hex(Take(v, 32)) \o suffix) ELSE JNull

\* the preview of the binary arms: 32 bytes and the true length
BinaryPreview(engine, cell) ==
    LET r == TryGet(engine, "Vec<u8>", cell)
        v == r.v.bytes
        suffix == IF Len(v) > 32 THEN "... (" \o ToString(Len(v)) \o " bytes)" ELSE ""
    IN  IF r.ok /\ r.some THEN JString("0x" \o Hex(Take(v, 32)) \o suffix) ELSE JNull

\* a last arm that marks a preview of exactly 16 bytes as cut
TextOrBlobMarkAt16(engine, cell) ==
    LET r == TryGet(engine, "String", cell)
        rb == TryGet(engine, "Vec<u8>", cell)
        v == rb.v.bytes
        suffix == IF Len(v) >= 16 THEN "..." ELSE ""
    IN  IF r.ok THEN JsonOf("String", r)
        ELSE IF rb.ok /\ rb.some THEN JString("[BLOB: 0x" \o Hex(Take(v, 16)) \o suffix \o "]")
        ELSE JNull

\* the last arm: a string, else a preview of 16 bytes
TextOrBlob(engine, cell) ==
    LET r == TryGet(engine, "String", cell)
        rb == TryGet(engine, "Vec<u8>", cell)
        v == rb.v.bytes
        suffix == IF Len(v) > 16 THEN "..." ELSE ""
    IN  IF r.ok THEN JsonOf("String", r)
        ELSE IF rb.ok /\ rb.some THEN JString("[BLOB: 0x" \o Hex(Take(v, 16)) \o suffix \o "]")
        ELSE JNull

\* match row.try_get::<Option<String>, _>(..) { Ok(v) => json!(v), Err(_) => Value::Null }
StringOrNull(engine, cell) ==
    LET r == TryGet(engine, "String", cell) IN IF r.ok THEN JsonOf("String", r) ELSE JNull

\* Ok(Some(v)) => json!(v.to_string()), Ok(None) => Null, Err(_) => otherwise
ToStringOr(engine, T, cell, otherwise) ==
    LET r == TryGet(engine, T, cell)
    IN  IF r.ok THEN JsonOf(T, r) ELSE otherwise

\* the match on type_name of the mysql branch, arm by arm in its order
NormalizeMysql(cell) ==
    LET type_name == cell.type_name
        Get(T) == TryGet("mysql", T, cell)
        FirstOk(types) ==
            LET RECURSIVE Try(_)
                Try(i) == IF i > Len(types) THEN StringOrNull("mysql", cell)
                          ELSE IF Get(types[i]).ok THEN JsonOf(types[i], Get(types[i]))
                          ELSE Try(i + 1)
            IN  Try(1)
    IN  IF type_name \in {"BOOLEAN", "BOOL"} THEN JsonOf("bool", UnwrapOrNone(Get("bool")))
        ELSE IF \/ StartsWith(type_name, "TINYINT")
                \/ StartsWith(type_name, "SMALLINT")
                \/ StartsWith(type_name, "INT")
                \/ StartsWith(type_name, "INTEGER")
                \/ StartsWith(type_name, "BIGINT")
                \/ StartsWith(type_name, "MEDIUMINT")
                \/ type_name = "INT4"
                \/ type_name = "INT8"
        THEN FirstOk(<<"i64", "u64", "i32", "i8">>)
        ELSE IF type_name \in {"FLOAT", "DOUBLE", "REAL", "NUMERIC"}
        THEN JsonOf("f64", UnwrapOrNone(Get("f64")))
        ELSE IF type_name = "BIT"
        THEN IF Get("u64").ok THEN JsonOf("u64", Get("u64"))
             ELSE IF Get("Vec<u8>").ok /\ Get("Vec<u8>").some
                  THEN JString("0x" \o Hex(Get("Vec<u8>").v.bytes))
                  ELSE JNull
        ELSE IF type_name = "JSON"
        THEN IF Get("Json").ok THEN JsonOf("Json", Get("Json")) ELSE JNull
        ELSE IF type_name \in {"TIMESTAMP", "DATETIME"}
        THEN ToStringOr("mysql", "NaiveDateTime", cell, StringOrNull("mysql", cell))
        ELSE IF type_name = "DATE" THEN ToStringOr("mysql", "NaiveDate", cell, JNull)
        ELSE IF type_name = "TIME" THEN ToStringOr("mysql", "NaiveTime", cell, JNull)
        ELSE IF type_name = "YEAR"
        THEN IF Get("i32").ok THEN JsonOf("i32", Get("i32")) ELSE StringOrNull("mysql", cell)
        ELSE IF \/ Contains(ToUppercase(type_name), "BINARY")
                \/ Contains(ToUppercase(type_name), "BLOB")
                \/ Contains(ToUppercase(type_name), "BYTEA")
        THEN BinaryPreview("mysql", cell)
        ELSE TextOrBlob("mysql", cell)

\* the match on type_name of the postgresql branch
NormalizePg(cell) ==
    LET type_name == cell.type_name
        Get(T) == TryGet("postgresql", T, cell)
        FirstOk(types) ==
            LET RECURSIVE Try(_)
                Try(i) == IF i > Len(types) THEN JNull
                          ELSE IF Get(types[i]).ok THEN JsonOf(types[i], Get(types[i]))
                          ELSE Try(i + 1)
            IN  Try(1)
    IN  IF type_name = "BOOL" THEN JsonOf("bool", UnwrapOrNone(Get("bool")))
        ELSE IF type_name \in {"INT2", "INT4", "INT8"}
        THEN JsonOf("i64", UnwrapOrNone(Get("i64")))
        ELSE IF type_name \in {"FLOAT4", "FLOAT8", "NUMERIC", "MONEY"}
        THEN JsonOf("f64", UnwrapOrNone(Get("f64")))
        ELSE IF type_name \in {"TIMESTAMP", "TIMESTAMPTZ"}
        THEN FirstOk(<<"String", "NaiveDateTime", "DateTime<Utc>">>)
        ELSE IF type_name = "DATE" THEN FirstOk(<<"String", "NaiveDate">>)
        ELSE IF type_name \in {"TIME", "TIMETZ"} THEN FirstOk(<<"String", "NaiveTime">>)
        ELSE IF type_name \in {"JSON", "JSONB"} THEN FirstOk(<<"Json", "String">>)
        ELSE IF type_name \in {"BYTEA", "VARBINARY", "BINARY", "BLOB"}
        THEN BinaryPreview("postgresql", cell)
        ELSE TextOrBlob("postgresql", cell)

Normalize(engine, cell) == IF engine = "mysql" THEN NormalizeMysql(cell) ELSE NormalizePg(cell)

\* an insert that keeps the value a name already has
InsertKeepFirst(map, name, value) ==
    [k \in DOMAIN map \cup {name} |-> IF k \in DOMAIN map THEN map[k] ELSE value]

\* map.insert(name.to_string(), value)
Insert(map, name, value) ==
    [k \in DOMAIN map \cup {name} |-> IF k = name THEN value ELSE map[k]]

\* the HashMap of a row: its columns inserted in order
RECURSIVE RowMapFrom(_, _, _, _)
RowMapFrom(engine, row, i, map) ==
    IF i > Len(row) THEN map
    ELSE RowMapFrom(engine, row, i + 1, Insert(map, row[i].name, Normalize(engine, row[i])))

RowMap(engine, row) == RowMapFrom(engine, row, 1, <<>>)

(***************************************************************************)
(* Result sets the engines answer a query with.                             *)
(***************************************************************************)
\* the width of an integer column type: the magnitudes of its least and its
\* greatest value
ColumnRange(type_name) ==
    CASE type_name \in {"TINYINT", "BOOLEAN"} -> IntRange("i8")
      [] type_name \in {"SMALLINT", "INT2"} -> IntRange("i16")
      [] type_name = "MEDIUMINT" -> [min |-> "8388608", max |-> "8388607"]
      [] type_name \in {"INT", "INT4"} -> IntRange("i32")
      [] type_name \in {"BIGINT", "INT8"} -> IntRange("i64")
      [] type_name = "TINYINT UNSIGNED" -> [min |-> "0", max |-> "255"]
      [] type_name = "SMALLINT UNSIGNED" -> [min |-> "0", max |-> "65535"]
      [] type_name = "MEDIUMINT UNSIGNED" -> [min |-> "0", max |-> "16777215"]
      [] type_name = "INT UNSIGNED" -> [min |-> "0", max |-> "4294967295"]
      [] type_name = "BIGINT UNSIGNED" -> IntRange("u64")

\* NULL, the ends of the column's range and the values around zero, and for
\* BIGINT UNSIGNED the two values around the end of the signed range
ColumnValues(type_name) ==
    LET range == ColumnRange(type_name)
    IN  {NullCell, IntCell(Zero), IntCell(Dec(FALSE, "1")), IntCell(Dec(FALSE, range.max))}
            \cup (IF range.min = "0" THEN {}
                  ELSE {IntCell(Dec(TRUE, "1")), IntCell(Dec(TRUE, range.min))})
            \cup (IF type_name = "BIGINT UNSIGNED"
                  THEN {IntCell(Dec(FALSE, IntRange("i64").max)),
                        IntCell(Dec(FALSE, IntRange("i64").min))}
                  ELSE {})

IntegerCells(engine) ==
    IF engine = "mysql"
    THEN UNION {{Cell("n", t, v, Compatible(engine, t, lenient)) :
                    v \in ColumnValues(t), lenient \in BOOLEAN} :
                    t \in MysqlSigned \cup MysqlUnsigned}
    ELSE UNION {{Cell("n", t, v, Compatible(engine, t, FALSE)) : v \in ColumnValues(t)} :
                    t \in {"INT2", "INT4", "INT8"}}

\* columns that are not of the integer family
OtherCells(engine) ==
    IF engine = "mysql"
    THEN {Cell("b", "BOOLEAN", IntCell(Dec(FALSE, "1")), Compatible(engine, "BOOLEAN", FALSE)),
          Cell("s", "VARCHAR", TextCell("a"), Compatible(engine, "VARCHAR", FALSE)),
          Cell("s", "TEXT", NullCell, Compatible(engine, "TEXT", FALSE))}
    ELSE {Cell("b", "BOOL", BoolCell(TRUE), Compatible(engine, "BOOL", FALSE)),
          Cell("s", "TEXT", TextCell("a"), Compatible(engine, "TEXT", FALSE)),
          Cell("s", "VARCHAR", NullCell, Compatible(engine, "VARCHAR", FALSE))}

\* n bytes, among them 00, 09 and AA
Bytes(n) == [i \in 1..n |-> ((i - 1) * 85 + ((i - 1) \div 3) * 10) % 256]

\* the Rust type a temporal column decodes into
ChronoTypeOf(engine, type_name) ==
    IF type_name \in {"TIMESTAMP", "DATETIME"} THEN "NaiveDateTime"
    ELSE IF type_name = "TIMESTAMPTZ" THEN "DateTime<Utc>"
    ELSE IF type_name = "DATE" THEN "NaiveDate"
    ELSE "NaiveTime"

\* temporal columns: the value as a chrono value (its fields) and as the
\* string the driver hands out when it hands out a string; the driver
\* decodes it into any of the types the arm asks for, or into none
TemporalCells(engine) ==
    LET tags == IF engine = "mysql" THEN {"TIMESTAMP", "DATETIME", "DATE", "TIME"}
                ELSE {"TIMESTAMP", "TIMESTAMPTZ", "DATE", "TIME", "TIMETZ"}
        ValueOf(T) ==
            IF T = "NaiveDate" THEN Native("temporal", FALSE, Zero, "2024-1-2", <<2024, 1, 2>>)
            ELSE IF T = "NaiveTime" THEN Native("temporal", FALSE, Zero, "3:04:05", <<3, 4, 5>>)
            ELSE Native("temporal", FALSE, Zero, "2024-01-02T03:04:05", <<2024, 1, 2, 3, 4, 5>>)
    IN  UNION {{Cell("t", tag, v, accepts) :
                    v \in {NullCell, ValueOf(ChronoTypeOf(engine, tag))},
                    accepts \in SUBSET {ChronoTypeOf(engine, tag), "String"}} :
               tag \in tags}

\* binary columns of 0, 1, 32 and 33 bytes
BinaryCells(engine) ==
    LET tags == IF engine = "mysql" THEN {"BLOB", "TINYBLOB", "VARBINARY", "BINARY"}
                ELSE {"BYTEA", "BLOB", "VARBINARY", "BINARY"}
    IN  {Cell("x", tag, Native("bytes", FALSE, Zero, "x", Bytes(n)), accepts) :
            tag \in tags, n \in {0, 1, 32, 33}, accepts \in {{"Vec<u8>"}, {"String"}, {}}}

\* columns of a type no arm names, of 0, 16 and 17 bytes, which the driver
\* decodes into a string, into bytes, into both or into neither
UnknownCells(engine) ==
    LET tags == IF engine = "mysql" THEN {"ENUM", "GEOMETRY", "DECIMAL"} ELSE {"UUID", "INET"}
    IN  {Cell("u", tag, Native("bytes", FALSE, Zero, "u", Bytes(n)), accepts) :
            tag \in tags, n \in {0, 16, 17}, accepts \in SUBSET {"String", "Vec<u8>"}}

\* columns of the boolean, float, bit, json and year arms, which the driver
\* decodes into any of the arm's type, a string and bytes
ScalarCells(engine) ==
    LET Column(tag, T, v) == {Cell("v", tag, v, accepts) : accepts \in SUBSET {T, "String", "Vec<u8>"}}
        true == Native("bool", TRUE, Dec(FALSE, "1"), "1", <<1>>)
        float == Native("float", FALSE, Zero, "1.5", <<>>)
        json == Native("json", FALSE, Zero, "{}", <<>>)
    IN  IF engine = "mysql"
        THEN Column("BOOL", "bool", true) \cup Column("DOUBLE", "f64", float)
                \cup Column("BIT", "u64", Native("bits", FALSE, Dec(FALSE, "5"), "", <<5>>))
                \cup Column("JSON", "Json", json)
                \cup Column("YEAR", "i32", Native("int", FALSE, Dec(FALSE, "2024"), "2024", <<>>))
        ELSE Column("BOOL", "bool", true) \cup Column("NUMERIC", "f64", float)
                \cup Column("JSONB", "Json", json)

\* no row; one row of one column; two rows of two columns; rows in which
\* two columns have one name, as in SELECT a.id, b.id
ResultSets(engine) ==
    LET one == IF engine = "mysql" THEN Dec(FALSE, "1") ELSE Dec(TRUE, "1")
        big == IF engine = "mysql" THEN "BIGINT" ELSE "INT8"
        Id(n) == Cell("id", big, IntCell(Dec(FALSE, n)), Compatible(engine, big, FALSE))
        Text(name, s) == Cell(name, "TEXT", TextCell(s), Compatible(engine, "TEXT", FALSE))
    IN  {<<>>}
            \cup {<<<<c>>>> : c \in IntegerCells(engine) \cup OtherCells(engine)
                                    \cup TemporalCells(engine) \cup BinaryCells(engine)
                                    \cup UnknownCells(engine) \cup ScalarCells(engine)}
            \cup {<<<<Cell("n", big, IntCell(one), Compatible(engine, big, FALSE)),
                      Cell("s", "TEXT", TextCell("a"), Compatible(engine, "TEXT", FALSE))>>,
                    <<Cell("n", big, NullCell, Compatible(engine, big, FALSE)),
                      Cell("s", "TEXT", TextCell("b"), Compatible(engine, "TEXT", FALSE))>>>>,
                  <<<<Id("1"), Id("2")>>>>,
                  <<<<Id("1"), Text("s", "a"), Text("id", "b")>>,
                    <<Text("id", "c"), Id("3"), Id("4")>>,
                    <<Id("5"), Text("s", "d"), Text("s", "e")>>>>}

(***************************************************************************)
(* get_tables, mysql branch: the metadata of a table and its TableInfo.     *)
(* A 64-bit number is written b * 2^63 + o with o small, which is exact     *)
(* for the numbers around 0, around 2^63 and around 2^64.                   *)
(***************************************************************************)
MaxOffset == 1

Big(b, o) == [b |-> b, o |-> o]

\* x < 2^63, for x of either 64-bit type
BelowTwo63(x) == x.b < 1 \/ (x.b = 1 /\ x.o < 0)

\* i64::MIN <= x <= i64::MAX
InI64(x) == BelowTwo63(x) /\ (x.b > -1 \/ (x.b = -1 /\ x.o >= 0))

\* x reduced modulo 2^64 into the range of i64, for x within 2^64 of it
WrapI64(x) ==
    IF InI64(x) THEN x
    ELSE IF BelowTwo63(x) THEN Big(x.b + 2, x.o)
    ELSE Big(x.b - 2, x.o)

\* the u64 values around 0, around 2^63 and below 2^64
U64Values ==
    {Big(0, o) : o \in 0..MaxOffset}
        \cup {Big(1, o) : o \in -MaxOffset..MaxOffset}
        \cup {Big(2, o) : o \in -MaxOffset..-1}

\* a cast that stops at i64::MAX
AsI64Saturating(v) == IF BelowTwo63(v) THEN v ELSE Big(1, -1)

\* v as i64, for v: u64
AsI64(v) == WrapI64(v)

NoneNum == [some |-> FALSE, v |-> Big(0, 0)]
SomeNum(x) == [some |-> TRUE, v |-> x]

\* the Option<u64> of row.try_get(..).ok(): None for NULL and for a column
\* the driver does not decode into u64
MetadataNumbers == {NoneNum} \cup {SomeNum(v) : v \in U64Values}

\* a row of information_schema.TABLES as the handler reads it
MetadataRow(name, data_len, index_len, table_rows, comment) ==
    [name |-> name, data_len |-> data_len, index_len |-> index_len,
     table_rows |-> table_rows, comment |-> comment]

\* no table; one table of any metadata; two tables
MetadataSets ==
    {<<>>}
        \cup {<<MetadataRow("t", d, i, r, SomeStr(""))>> :
                d \in MetadataNumbers, i \in MetadataNumbers, r \in MetadataNumbers}
        \cup {<<MetadataRow("t", SomeNum(Big(0, 1)), NoneNum, SomeNum(Big(1, 0)), NoneStr),
                MetadataRow("u", SomeNum(Big(1, 0)), SomeNum(Big(0, 1)), NoneNum, SomeStr("c"))>>}

\* Option::map(|v| v as i64)
MapAsI64(opt) == IF opt.some THEN SomeNum(AsI64(opt.v)) ELSE NoneNum

\* Option::unwrap_or(0)
UnwrapOrZero(opt) == IF opt.some THEN opt.v ELSE Big(0, 0)

\* d_size.unwrap_or(0) + i_size.unwrap_or(0), before any overflow
SizeSum(row) ==
    LET d == UnwrapOrZero(MapAsI64(row.data_len))
        i == UnwrapOrZero(MapAsI64(row.index_len))
    IN  Big(d.b + i.b, d.o + i.o)

\* the TableInfo pushed for a row; the sum wraps when it overflows
TableInfo(row) ==
    [name |-> row.name,
     data_size |-> MapAsI64(row.data_len),
     index_size |-> MapAsI64(row.index_len),
     total_size |-> SomeNum(WrapI64(SizeSum(row))),
     row_count |-> MapAsI64(row.table_rows),
     comment |-> row.comment]

\* Option::or
Or(a, b) == IF a.some THEN a ELSE b

\* db_name: the database asked for when it is not empty
DbName(target_db) == IF target_db.some /\ target_db.v # <<>> THEN target_db.v ELSE <<>>

(***************************************************************************)
(* The connection store: connections.json holds the list of profiles.       *)
(***************************************************************************)
MaxIds == 2

Ids == {ToString(i) : i \in 1..MaxIds}

\* ConnectionConfig, as the store handles it
Profile(i, name, password) ==
    [id |-> i, name |-> name, db_type |-> "mysql", host |-> "h", port |-> 3306,
     username |-> NoneStr, password |-> password, database |-> NoneStr]

\* two profiles for each id
Profiles ==
    {Profile(i, "n1", NoneStr) : i \in Ids} \cup {Profile(i, "n2", SomeStr("p")) : i \in Ids}

\* a JSON string, and null
JsonStr(s) == [null |-> FALSE, s |-> s]
JsonNull == [null |-> TRUE, s |-> ""]

\* Serialize of Option<String>, and Deserialize
OptionToJson(opt) == IF opt.some THEN JsonStr(opt.v) ELSE JsonNull
OptionFromJson(j) == IF j.null THEN NoneStr ELSE SomeStr(j.s)

\* Serialize of ConnectionConfig: an object of its fields
ToJson(c) ==
    [id |-> JsonStr(c.id), name |-> JsonStr(c.name), db_type |-> JsonStr(c.db_type),
     host |-> JsonStr(c.host), port |-> c.port, username |-> OptionToJson(c.username),
     password |-> OptionToJson(c.password), database |-> OptionToJson(c.database)]

\* Deserialize of ConnectionConfig
FromJson(o) ==
    [id |-> o.id.s, name |-> o.name.s, db_type |-> o.db_type.s, host |-> o.host.s,
     port |-> o.port, username |-> OptionFromJson(o.username),
     password |-> OptionFromJson(o.password), database |-> OptionFromJson(o.database)]

\* the text of a file: an array of objects, or text that is no such array
Content(valid, items) == [valid |-> valid, items |-> items]

\* what a write that failed midway leaves
Garbage == Content(FALSE, <<>>)

\* serde_json::to_string_pretty(&connections)
ToStringPretty(connections) ==
    Content(TRUE, [k \in 1..Len(connections) |-> ToJson(connections[k])])

\* serde_json::from_str::<Vec<ConnectionConfig>>(&content).unwrap_or_default()
FromStrOrDefault(content) ==
    IF content.valid THEN [k \in 1..Len(content.items) |-> FromJson(content.items[k])]
    ELSE <<>>

NoFile == [exists |-> FALSE, content |-> Garbage]
FileOf(content) == [exists |-> TRUE, content |-> content]

\* the list save_connection and delete_connection start from
ReadConnections(f) == IF f.exists THEN FromStrOrDefault(f.content) ELSE <<>>

\* connections.iter().position(|c| c.id == config.id), 0 for None
Position(connections, i) ==
    IF \E k \in 1..Len(connections) : connections[k].id = i
    THEN CHOOSE k \in 1..Len(connections) :
            /\ connections[k].id = i
            /\ \A j \in 1..(k - 1) : connections[j].id # i
    ELSE 0

\* a save that always pushes
UpsertPush(connections, c) == Append(connections, c)

\* connections[idx] = config when the id is there, connections.push(config)
\* otherwise
Upsert(connections, c) ==
    LET idx == Position(connections, c.id)
    IN  IF idx > 0 THEN [connections EXCEPT ![idx] = c] ELSE Append(connections, c)

\* connections.retain(|c| c.id != id)
Retain(connections, i) ==
    LET Keep(c) == c.id # i IN SelectSeq(connections, Keep)

NoProfile == [some |-> FALSE, v |-> Profile("", "", NoneStr)]
SomeProfile(c) == [some |-> TRUE, v |-> c]

NoHistory == [clean |-> TRUE, latest |-> [i \in Ids |-> NoProfile]]

(***************************************************************************)
(* State.                                                                   *)
(***************************************************************************)
VARIABLES
    call,      \* the running command handler, "none" between calls
    pc,        \* its position
    config,    \* ConnectionConfig of the running call
    query,     \* the script of execute_query
    lines,     \* query.lines(), the lines the for loop runs over
    lineIdx,   \* lines of the script the for loop has consumed
    results,   \* results: Vec of {command, result}
    sent,      \* requests written to a redis connection, in order
    replies,   \* outcomes received for the requests, in order
    conns,     \* connections opened by the running call
    parsed,    \* the lines that reached the quote parser, with their tokens
    table,     \* the table of alter_table
    operation, \* the AlterOperation of alter_table
    translation, \* alter_table's `query`, or the error of its translation
    stmts,     \* statements executed on the SQL session, in order
    stmtResults, \* their outcomes, in order
    rows,      \* the rows fetch_all returned to the mysql or postgresql branch
    current_db, \* get_tables: the schema whose tables are asked for
    tables,    \* get_tables: the TableInfo pushed so far
    file,      \* connections.json in the application's configuration directory
    id,        \* the id delete_connection was called with
    listed,    \* the list get_connections returned
    history,   \* history of the store: whether every save and delete so far
               \* succeeded, and for each id the profile last saved and not
               \* deleted since
    ret        \* what the call returned

eqVars == <<config, query, lines, lineIdx, results, sent, replies, conns, parsed>>

atVars == <<table, operation, translation, stmts, stmtResults>>

sqVars == <<rows>>

gtVars == <<current_db, tables>>

csVars == <<file, id, listed, history>>

vars == <<call, pc, ret, eqVars, atVars, sqVars, gtVars, csVars>>

NoRet == [state |-> "none", msg |-> ""]
RetOk == [state |-> "ok", msg |-> ""]
RetErr(msg) == [state |-> "err", msg |-> msg]

\* the call ended in a panic
Panicked == [state |-> "panic", msg |-> ""]

NoConfig == [db_type |-> "", password |-> NoneOpt, database |-> NoneOpt]

NoOperation == AlterOperation("", NoneStr, NoneStr, NoColumnDef, NoIndexDef, NoneStr)

Init ==
    /\ call = "none"
    /\ pc = "idle"
    /\ table = ""
    /\ operation = NoOperation
    /\ translation = TranslationError("")
    /\ stmts = <<>>
    /\ stmtResults = <<>>
    /\ rows = <<>>
    /\ current_db = <<>>
    /\ tables = <<>>
    /\ file = NoFile
    /\ id = ""
    /\ listed = <<>>
    /\ history = NoHistory
    /\ ret = NoRet
    /\ config = NoConfig
    /\ query = <<>>
    /\ lines = <<>>
    /\ lineIdx = 0
    /\ results = <<>>
    /\ sent = <<>>
    /\ replies = <<>>
    /\ conns = 0
    /\ parsed = <<>>

\* a request on connection conn; line is the script line it came from, 0 for
\* the requests that set the session up
Request(conn, cmd, line) == [conn |-> conn, cmd |-> cmd, line |-> line]

\* redis::cmd(name) followed by one cmd.arg per argument
Cmd(name, args) == [name |-> name, args |-> args]

\* variant: the arguments are not advanced past the command name
BuildCmdNoSkip(args) == Cmd(args[1], args)

\* the command of one tokenized script line
BuildCmd(args) == Cmd(args[1], Tail(args))

InFlight == Len(sent) - Len(replies)

(***************************************************************************)
(* execute_query, redis branch.                                             *)
(***************************************************************************)
ExecuteQueryCall ==
    /\ pc = "idle"
    /\ call' = "execute_query"
    /\ UNCHANGED <<atVars, sqVars, gtVars, csVars>>
    /\ \E inp \in EqInputs :
        /\ config' = inp.config
        /\ query' = inp.query
        /\ lines' = Lines(inp.query)
        /\ IF inp.config.db_type = "redis"
           THEN pc' = "eq_connect" /\ ret' = NoRet
           ELSE pc' = "done" /\ ret' = RetErr("Unsupported database type")
    /\ UNCHANGED <<lineIdx, results, sent, replies, conns, parsed>>

\* Client::open and get_multiplexed_async_connection
RedisConnect ==
    /\ UNCHANGED <<call, atVars, sqVars, gtVars, csVars>>
    /\ pc = "eq_connect"
    /\ \/ /\ conns' = conns + 1
          /\ pc' = "eq_auth"
          /\ ret' = ret
       \/ /\ conns' = conns
          /\ pc' = "done"
          /\ ret' = RetErr("connect")
    /\ UNCHANGED <<config, query, lines, lineIdx, results, sent, replies, parsed>>

RedisAuth ==
    /\ UNCHANGED <<call, atVars, sqVars, gtVars, csVars>>
    /\ pc = "eq_auth"
    /\ IF config.password.some /\ config.password.v # <<>>
       THEN /\ sent' = Append(sent, Request(conns, Cmd(<<"A", "U", "T", "H">>, <<config.password.v>>), 0))
            /\ pc' = "eq_await_auth"
       ELSE /\ sent' = sent
            /\ pc' = "eq_select"
    /\ UNCHANGED <<ret, config, query, lines, lineIdx, results, replies, conns, parsed>>

\* the outcome of a session set-up request: `?` returns its error
SetupReply(await, next) ==
    /\ UNCHANGED <<call, atVars, sqVars, gtVars, csVars>>
    /\ pc = await
    /\ InFlight = 1
    /\ \/ /\ replies' = Append(replies, OkReply(VOkay, ConvOk("OK")))
          /\ pc' = next
          /\ ret' = ret
       \/ /\ replies' = Append(replies, ErrReply("ERR refused"))
          /\ pc' = "done"
          /\ ret' = RetErr("ERR refused")
    /\ UNCHANGED <<config, query, lines, lineIdx, results, sent, conns, parsed>>

RedisAuthReply == SetupReply("eq_await_auth", "eq_select")

RedisSelect ==
    /\ UNCHANGED <<call, atVars, sqVars, gtVars, csVars>>
    /\ pc = "eq_select"
    /\ IF config.database.some /\ config.database.v # <<>>
       THEN /\ sent' = Append(sent, Request(conns,
                          Cmd(<<"S", "E", "L", "E", "C", "T">>,
                              <<DecimalChars(DbIndex(config.database.v))>>), 0))
            /\ pc' = "eq_await_select"
       ELSE /\ sent' = sent
            /\ pc' = "eq_loop"
    /\ UNCHANGED <<ret, config, query, lines, lineIdx, results, replies, conns, parsed>>

RedisSelectReply == SetupReply("eq_await_select", "eq_loop")

\* variant: the command is sent without awaiting its reply
RedisLineNoAwait ==
    /\ UNCHANGED <<call, atVars, sqVars, gtVars, csVars>>
    /\ pc = "eq_loop"
    /\ IF lineIdx >= Len(lines)
       THEN /\ pc' = "done"
            /\ ret' = RetOk
            /\ UNCHANGED <<lineIdx, sent, parsed>>
       ELSE LET line == lines[lineIdx + 1]
                trimmed == Trim(line)
                args == Tokenize(trimmed)
            IN  /\ lineIdx' = lineIdx + 1
                /\ ret' = ret
                /\ pc' = pc
                /\ IF IsSkipped(trimmed)
                   THEN UNCHANGED <<sent, parsed>>
                   ELSE /\ parsed' = Append(parsed, [line |-> lineIdx + 1, args |-> args])
                        /\ IF args = <<>>
                           THEN UNCHANGED sent
                           ELSE sent' = Append(sent, Request(conns, BuildCmd(args), lineIdx + 1))
    /\ UNCHANGED <<config, query, lines, results, replies, conns>>

\* one turn of `for line in query.lines()` up to the query_async of its
\* command, or the end of the loop
RedisLine ==
    /\ UNCHANGED <<call, atVars, sqVars, gtVars, csVars>>
    /\ pc = "eq_loop"
    /\ IF lineIdx >= Len(lines)
       THEN /\ pc' = "done"
            /\ ret' = RetOk
            /\ UNCHANGED <<lineIdx, sent, parsed>>
       ELSE LET line == lines[lineIdx + 1]
                trimmed == Trim(line)
                args == Tokenize(trimmed)
            IN  /\ lineIdx' = lineIdx + 1
                /\ ret' = ret
                /\ IF IsSkipped(trimmed)
                   THEN UNCHANGED <<pc, sent, parsed>>
                   ELSE /\ parsed' = Append(parsed, [line |-> lineIdx + 1, args |-> args])
                        /\ IF args = <<>>
                           THEN UNCHANGED <<pc, sent>>
                           ELSE /\ sent' = Append(sent, Request(conns, BuildCmd(args), lineIdx + 1))
                                /\ pc' = "eq_await_cmd"
    /\ UNCHANGED <<config, query, lines, results, replies, conns>>

\* the command field and the result field of one entry of results
ResultEntry(trimmed, result_str) == [command |-> trimmed, result |-> result_str]

ResultStr(r) ==
    IF r.ok THEN redis_value_to_string(r.val, r.conv) ELSE "Error: " \o r.err

\* variant: `?` on the command's outcome
RedisCmdReplyAbortOnError ==
    /\ UNCHANGED <<call, atVars, sqVars, gtVars, csVars>>
    /\ pc = "eq_await_cmd"
    /\ InFlight = 1
    /\ \E r \in CmdOutcomes :
        /\ replies' = Append(replies, r)
        /\ IF r.ok
           THEN /\ results' = Append(results, ResultEntry(Trim(lines[lineIdx]), ResultStr(r)))
                /\ pc' = "eq_loop"
                /\ ret' = ret
           ELSE /\ results' = results
                /\ pc' = "done"
                /\ ret' = RetErr(r.err)
    /\ UNCHANGED <<config, query, lines, lineIdx, sent, conns, parsed>>

\* variant: the entry is inserted at the front of results
RedisCmdReplyInsertFront ==
    /\ UNCHANGED <<call, atVars, sqVars, gtVars, csVars>>
    /\ pc = "eq_await_cmd"
    /\ InFlight = 1
    /\ \E r \in CmdOutcomes :
        /\ replies' = Append(replies, r)
        /\ results' = <<ResultEntry(Trim(lines[lineIdx]), ResultStr(r))>> \o results
    /\ pc' = "eq_loop"
    /\ UNCHANGED <<ret, config, query, lines, lineIdx, sent, conns, parsed>>

\* query_async of a script command resolves; its entry is pushed
RedisCmdReply ==
    /\ UNCHANGED <<call, atVars, sqVars, gtVars, csVars>>
    /\ pc = "eq_await_cmd"
    /\ InFlight = 1
    /\ \E r \in CmdOutcomes :
        /\ replies' = Append(replies, r)
        /\ results' = Append(results, ResultEntry(Trim(lines[lineIdx]), ResultStr(r)))
    /\ pc' = "eq_loop"
    /\ UNCHANGED <<ret, config, query, lines, lineIdx, sent, conns, parsed>>

(***************************************************************************)
(* alter_table.                                                             *)
(***************************************************************************)
\* variant: the connection is opened before the operation is translated
AlterTableCallConnectFirst ==
    /\ pc = "idle"
    /\ call' = "alter_table"
    /\ conns' = 1
    /\ \E inp \in AtInputs :
        LET tr == TranslateOperation(inp.config.db_type, inp.table, inp.operation)
        IN  /\ config' = inp.config
            /\ table' = inp.table
            /\ operation' = inp.operation
            /\ translation' = tr
            /\ IF tr.ok
               THEN pc' = "at_execute" /\ ret' = NoRet
               ELSE pc' = "done" /\ ret' = RetErr(tr.err)
    /\ UNCHANGED <<rows, gtVars, csVars, query, lines, lineIdx, results, sent, replies, parsed, stmts, stmtResults>>

\* the statement is translated before anything is awaited
AlterTableCall ==
    /\ pc = "idle"
    /\ call' = "alter_table"
    /\ \E inp \in AtInputs :
        LET tr == TranslateOperation(inp.config.db_type, inp.table, inp.operation)
        IN  /\ config' = inp.config
            /\ table' = inp.table
            /\ operation' = inp.operation
            /\ translation' = tr
            /\ IF tr.ok
               THEN pc' = "at_connect" /\ ret' = NoRet
               ELSE pc' = "done" /\ ret' = RetErr(tr.err)
    /\ UNCHANGED <<rows, gtVars, csVars, query, lines, lineIdx, results, sent, replies, conns, parsed,
                   stmts, stmtResults>>

\* opts.connect()
AlterConnect ==
    /\ pc = "at_connect"
    /\ \/ /\ conns' = conns + 1
          /\ pc' = "at_execute"
          /\ ret' = ret
       \/ /\ conns' = conns
          /\ pc' = "done"
          /\ ret' = RetErr("connect")
    /\ UNCHANGED <<call, atVars, sqVars, gtVars, csVars, config, query, lines, lineIdx, results, sent,
                   replies, parsed>>

Statement(conn, sql) == [conn |-> conn, sql |-> sql]

\* sqlx::query(&query).execute(&mut conn)
AlterExecute ==
    /\ pc = "at_execute"
    /\ stmts' = Append(stmts, Statement(conns, translation.sql))
    /\ pc' = "at_await_execute"
    /\ UNCHANGED <<call, ret, sqVars, gtVars, csVars, eqVars, table, operation, translation, stmtResults>>

\* variant: the comment step follows the statement whatever its outcome
AlterExecuteResultIgnoreFailure ==
    /\ pc = "at_await_execute"
    /\ \E ok \in BOOLEAN : stmtResults' = Append(stmtResults, ok)
    /\ IF config.db_type = "postgresql"
       THEN pc' = "at_comment" /\ ret' = ret
       ELSE pc' = "done" /\ ret' = RetOk
    /\ UNCHANGED <<call, sqVars, gtVars, csVars, eqVars, table, operation, translation, stmts>>

\* the statement's outcome: `?` returns its error
AlterExecuteResult ==
    /\ pc = "at_await_execute"
    /\ \/ /\ stmtResults' = Append(stmtResults, TRUE)
          /\ IF config.db_type = "postgresql"
             THEN pc' = "at_comment" /\ ret' = ret
             ELSE pc' = "done" /\ ret' = RetOk
       \/ /\ stmtResults' = Append(stmtResults, FALSE)
          /\ pc' = "done"
          /\ ret' = RetErr("execute")
    /\ UNCHANGED <<call, sqVars, gtVars, csVars, eqVars, table, operation, translation, stmts>>

\* "Handle comment for PG separately if it's ADD"
AlterComment ==
    /\ pc = "at_comment"
    /\ IF /\ operation.op_type = "add"
          /\ config.db_type = "postgresql"
          /\ operation.column_def.some
          /\ operation.column_def.v.comment.some
       THEN /\ stmts' = Append(stmts, Statement(conns, PgCommentQuery(table, operation.column_def.v)))
            /\ pc' = "at_await_comment"
            /\ ret' = ret
       ELSE /\ stmts' = stmts
            /\ pc' = "done"
            /\ ret' = RetOk
    /\ UNCHANGED <<call, sqVars, gtVars, csVars, eqVars, table, operation, translation, stmtResults>>

\* variant: the comment statement's error is returned
AlterCommentResultPropagate ==
    /\ pc = "at_await_comment"
    /\ \E ok \in BOOLEAN :
        /\ stmtResults' = Append(stmtResults, ok)
        /\ ret' = IF ok THEN RetOk ELSE RetErr("execute")
    /\ pc' = "done"
    /\ UNCHANGED <<call, sqVars, gtVars, csVars, eqVars, table, operation, translation, stmts>>

\* `let _ =`: the outcome of the comment statement is dropped
AlterCommentResult ==
    /\ pc = "at_await_comment"
    /\ \E ok \in BOOLEAN : stmtResults' = Append(stmtResults, ok)
    /\ pc' = "done"
    /\ ret' = RetOk
    /\ UNCHANGED <<call, sqVars, gtVars, csVars, eqVars, table, operation, translation, stmts>>

(***************************************************************************)
(* execute_query, mysql and postgresql branches.                            *)
(***************************************************************************)
SqlQueryCall ==
    /\ pc = "idle"
    /\ call' = "execute_query"
    /\ \E db_type \in {"mysql", "postgresql"} : config' = SqlConfig(db_type)
    /\ pc' = "sq_connect"
    /\ UNCHANGED <<ret, query, lines, lineIdx, results, sent, replies, conns, parsed, atVars, sqVars, gtVars, csVars>>

\* opts.connect()
SqlConnect ==
    /\ pc = "sq_connect"
    /\ \/ /\ conns' = conns + 1
          /\ pc' = "sq_fetch"
          /\ ret' = ret
       \/ /\ conns' = conns
          /\ pc' = "done"
          /\ ret' = RetErr("connect")
    /\ UNCHANGED <<call, config, query, lines, lineIdx, results, sent, replies, parsed, atVars,
                   sqVars, gtVars, csVars>>

\* sqlx::query(&query).fetch_all(&mut conn): the rows, or the error `?` returns
SqlFetchAll ==
    /\ pc = "sq_fetch"
    /\ \/ /\ \E rs \in ResultSets(config.db_type) : rows' = rs
          /\ pc' = "sq_rows"
          /\ ret' = ret
       \/ /\ rows' = rows
          /\ pc' = "done"
          /\ ret' = RetErr("query")
    /\ UNCHANGED <<call, config, query, lines, lineIdx, results, sent, replies, conns, parsed, atVars,
                   gtVars, csVars>>

\* one turn of `for row in rows`: the row's map is pushed
SqlRow ==
    /\ pc = "sq_rows"
    /\ Len(results) < Len(rows)
    /\ results' = Append(results, RowMap(config.db_type, rows[Len(results) + 1]))
    /\ UNCHANGED <<call, pc, ret, config, query, lines, lineIdx, sent, replies, conns, parsed,
                   atVars, sqVars, gtVars, csVars>>

\* Ok(results)
SqlReturn ==
    /\ pc = "sq_rows"
    /\ Len(results) = Len(rows)
    /\ pc' = "done"
    /\ ret' = RetOk
    /\ UNCHANGED <<call, config, query, lines, lineIdx, results, sent, replies, conns, parsed,
                   atVars, sqVars, gtVars, csVars>>

(***************************************************************************)
(* get_tables, mysql branch.                                                *)
(***************************************************************************)
\* the call: target_db = database.or(config.database), db_name from it
GetTablesCall ==
    /\ pc = "idle"
    /\ call' = "get_tables"
    /\ \E db \in {NoneOpt, SomeOpt(<<"c">>)}, database \in {NoneOpt, SomeOpt(<<>>), SomeOpt(<<"d">>)} :
            /\ config' = [db_type |-> "mysql", password |-> NoneOpt, database |-> db]
            /\ current_db' = DbName(Or(database, db))
    /\ pc' = "gt_connect"
    /\ UNCHANGED <<ret, query, lines, lineIdx, results, sent, replies, conns, parsed, atVars,
                   sqVars, tables, csVars>>

\* opts.connect(): with no db_name the server is asked for the current schema
GtConnect ==
    /\ pc = "gt_connect"
    /\ \/ /\ conns' = conns + 1
          /\ pc' = IF current_db = <<>> THEN "gt_current_db" ELSE "gt_fetch"
          /\ ret' = ret
       \/ /\ conns' = conns
          /\ pc' = "done"
          /\ ret' = RetErr("connect")
    /\ UNCHANGED <<call, config, query, lines, lineIdx, results, sent, replies, parsed, atVars,
                   sqVars, gtVars, csVars>>

\* SELECT DATABASE(): the schema, or "" for NULL and for an error
GtCurrentDb ==
    /\ pc = "gt_current_db"
    /\ current_db' \in {<<>>, <<"s">>}
    /\ pc' = "gt_fetch"
    /\ UNCHANGED <<call, ret, eqVars, atVars, sqVars, tables, csVars>>

\* fetch_all of the tables of schema current_db, or the error `?` returns
GtFetchAll ==
    /\ pc = "gt_fetch"
    /\ \/ /\ rows' \in (IF current_db = <<>> THEN {<<>>} ELSE MetadataSets)
          /\ pc' = "gt_rows"
          /\ ret' = ret
       \/ /\ rows' = rows
          /\ pc' = "done"
          /\ ret' = RetErr("Failed to fetch tables: ")
    /\ UNCHANGED <<call, eqVars, atVars, gtVars, csVars>>

\* one turn of `for row in rows`: the TableInfo is pushed; when the sum of
\* the sizes overflows it wraps, or in a build that checks overflow panics
GtRow ==
    /\ pc = "gt_rows"
    /\ Len(tables) < Len(rows)
    /\ LET row == rows[Len(tables) + 1]
       IN  \/ /\ tables' = Append(tables, TableInfo(row))
              /\ UNCHANGED <<pc, ret>>
           \/ /\ ~InI64(SizeSum(row))
              /\ pc' = "done"
              /\ ret' = Panicked
              /\ tables' = tables
    /\ UNCHANGED <<call, eqVars, atVars, sqVars, current_db, csVars>>

\* Ok(tables)
GtReturn ==
    /\ pc = "gt_rows"
    /\ Len(tables) = Len(rows)
    /\ pc' = "done"
    /\ ret' = RetOk
    /\ UNCHANGED <<call, eqVars, atVars, sqVars, gtVars, csVars>>

(***************************************************************************)
(* The connection store.  Its commands are not async: each runs to its end  *)
(* before the next one starts.                                              *)
(***************************************************************************)
\* save_connection: the list is read, the profile replaces the one of its
\* id or is pushed, and the list is written; get_config_path, the read and
\* the write can fail, a failed write leaving the old file or a partial one
SaveConnection ==
    /\ pc = "idle"
    /\ call' = "save_connection"
    /\ pc' = "done"
    /\ \E c \in Profiles :
        /\ config' = c
        /\ \/ /\ file' = file
              /\ ret' = RetErr("io")
              /\ history' = [history EXCEPT !.clean = FALSE]
           \/ /\ file' = FileOf(ToStringPretty(Upsert(ReadConnections(file), c)))
              /\ ret' = RetOk
              /\ history' = [history EXCEPT !.latest[c.id] = SomeProfile(c)]
           \/ /\ file' \in {file, FileOf(Garbage)}
              /\ ret' = RetErr("write")
              /\ history' = [history EXCEPT !.clean = FALSE]
    /\ UNCHANGED <<query, lines, lineIdx, results, sent, replies, conns, parsed, atVars, sqVars,
                   gtVars, id, listed>>

\* get_connections: no file is the empty list, a file that does not parse
\* too
GetConnections ==
    /\ pc = "idle"
    /\ call' = "get_connections"
    /\ pc' = "done"
    /\ \/ /\ listed' = (IF file.exists THEN FromStrOrDefault(file.content) ELSE <<>>)
          /\ ret' = RetOk
       \/ /\ listed' = listed
          /\ ret' = RetErr("io")
    /\ UNCHANGED <<eqVars, atVars, sqVars, gtVars, file, id, history>>

\* delete_connection: nothing to do without a file; else the list is read,
\* the profiles of the id are dropped, and the list is written
DeleteConnection ==
    /\ pc = "idle"
    /\ call' = "delete_connection"
    /\ pc' = "done"
    /\ \E i \in Ids :
        /\ id' = i
        /\ \/ /\ file' = file
              /\ ret' = RetErr("io")
              /\ history' = [history EXCEPT !.clean = FALSE]
           \/ /\ file' = (IF file.exists
                          THEN FileOf(ToStringPretty(Retain(FromStrOrDefault(file.content), i)))
                          ELSE file)
              /\ ret' = RetOk
              /\ history' = [history EXCEPT !.latest[i] = NoProfile]
           \/ /\ file.exists
              /\ file' \in {file, FileOf(Garbage)}
              /\ ret' = RetErr("write")
              /\ history' = [history EXCEPT !.clean = FALSE]
    /\ UNCHANGED <<eqVars, atVars, sqVars, gtVars, listed>>

\* the handler has returned; nothing of the call is kept
Return ==
    /\ pc = "done"
    /\ pc' = "idle"
    /\ ret' = NoRet
    /\ config' = NoConfig
    /\ query' = <<>>
    /\ lines' = <<>>
    /\ lineIdx' = 0
    /\ results' = <<>>
    /\ sent' = <<>>
    /\ replies' = <<>>
    /\ conns' = 0
    /\ parsed' = <<>>
    /\ call' = "none"
    /\ table' = ""
    /\ operation' = NoOperation
    /\ translation' = TranslationError("")
    /\ stmts' = <<>>
    /\ stmtResults' = <<>>
    /\ rows' = <<>>
    /\ current_db' = <<>>
    /\ tables' = <<>>
    /\ id' = ""
    /\ listed' = <<>>
    /\ UNCHANGED <<file, history>>

\* the steps of an execute_query call
NextScript ==
    \/ ExecuteQueryCall
    \/ RedisConnect
    \/ RedisAuth
    \/ RedisAuthReply
    \/ RedisSelect
    \/ RedisSelectReply
    \/ RedisLine
    \/ RedisCmdReply
    \/ Return

\* the steps of an alter_table call
NextAlter ==
    \/ AlterTableCall
    \/ AlterConnect
    \/ AlterExecute
    \/ AlterExecuteResult
    \/ AlterComment
    \/ AlterCommentResult
    \/ Return

\* the steps of an execute_query call on mysql or postgresql
NextRows ==
    \/ SqlQueryCall
    \/ SqlConnect
    \/ SqlFetchAll
    \/ SqlRow
    \/ SqlReturn
    \/ Return

\* the steps of a get_tables call on mysql
NextTables ==
    \/ GetTablesCall
    \/ GtConnect
    \/ GtCurrentDb
    \/ GtFetchAll
    \/ GtRow
    \/ GtReturn
    \/ Return

\* the commands of the connection store
NextStore ==
    \/ SaveConnection
    \/ GetConnections
    \/ DeleteConnection
    \/ Return

Next == NextScript \/ NextAlter \/ NextRows \/ NextTables \/ NextStore

\* any sequence of calls of the command handlers
Spec == Init /\ [][Next]_vars

\* the calls of one handler; a call keeps nothing, so the calls of the other
\* handlers change nothing of what it does
SpecScript == Init /\ [][NextScript]_vars

SpecAlter == Init /\ [][NextAlter]_vars

SpecRows == Init /\ [][NextRows]_vars

SpecTables == Init /\ [][NextTables]_vars

SpecStore == Init /\ [][NextStore]_vars

(***************************************************************************)
(* Vocabulary of the properties of the script interpreter.                  *)
(***************************************************************************)
Indices(sq) == [i \in 1..Len(sq) |-> i]

\* positions in sent of the requests that come from script lines
ScriptIdx == LET FromScript(i) == sent[i].line > 0 IN SelectSeq(Indices(sent), FromScript)

Finished == call = "execute_query" /\ pc = "done" /\ ret.state = "ok"

\* for each position of s, whether it follows a backslash that is itself not
\* escaped
RECURSIVE EscapedFlags(_, _)
EscapedFlags(s, flags) ==
    IF Len(flags) = Len(s) THEN flags
    ELSE LET i == Len(flags) + 1
         IN  EscapedFlags(s, Append(flags, i > 1 /\ s[i - 1] = "\\" /\ ~flags[i - 1]))

\* the tokens of a line by the quoting grammar.  An unescaped quote toggles a
\* quoted span, an unescaped backslash escapes the next character, unescaped
\* whitespace outside a quoted span separates; every other character is
\* emitted.  The emitted characters between two separators form a field, and
\* the non-empty fields are the tokens, in order.
GrammarTokens(s) ==
    LET escaped == EscapedFlags(s, <<>>)
        quotes == {i \in 1..Len(s) : s[i] = "\"" /\ ~escaped[i]}
        escapes == {i \in 1..Len(s) : s[i] = "\\" /\ ~escaped[i]}
        InQuotedSpan(i) == Cardinality({q \in quotes : q < i}) % 2 = 1
        seps == {i \in 1..Len(s) : IsWhitespace(s[i]) /\ ~escaped[i] /\ ~InQuotedSpan(i)}
        Emitted(i) == i \notin quotes \cup escapes \cup seps
        kept == SelectSeq(Indices(s), Emitted)
        Chars(f) == LET InField(i) == Cardinality({j \in seps : j < i}) = f - 1
                        at == SelectSeq(kept, InField)
                    IN  [k \in 1..Len(at) |-> s[at[k]]]
        NonEmpty(t) == t # <<>>
    IN  SelectSeq([f \in 1..(Cardinality(seps) + 1) |-> Chars(f)], NonEmpty)

\* the text of a line between its first and its last non-whitespace character
Stripped(line) ==
    LET solid == {i \in 1..Len(line) : ~IsWhitespace(line[i])}
    IN  IF solid = {} THEN <<>>
        ELSE SubSeq(line, CHOOSE i \in solid : \A j \in solid : i <= j,
                          CHOOSE i \in solid : \A j \in solid : j <= i)

ExampleTokens ==
    << <<"H", "S", "E", "T">>, <<"m", "y", "h", "a", "s", "h">>,
       <<"f", "i", "e", "l", "d", " ", "o", "n", "e">>,
       <<"v", "a", "l", "u", "e", "\"", "x">> >>

\* a line that yields a command: not blank, no comment marker first, a token
YieldsCommand(line) ==
    LET t == Stripped(line)
    IN  /\ t # <<>>
        /\ t[1] # "#"
        /\ ~(Len(t) >= 2 /\ t[1] = "-" /\ t[2] = "-")
        /\ GrammarTokens(t) # <<>>

CommandLines == LET Yields(i) == YieldsCommand(lines[i]) IN SelectSeq(Indices(lines), Yields)

(***************************************************************************)
(* C1. The tokens of a script line (as given to the parser, without its     *)
(* leading and trailing whitespace) are its fields split on whitespace      *)
(* outside quotes; an unescaped double quote is not emitted and toggles a   *)
(* quoted span, an unescaped backslash is not emitted and makes the next    *)
(* character literal, inside and outside quotes.  The example line yields   *)
(* HSET, myhash, `field one`, `value"x`.                                    *)
(***************************************************************************)
C1_TokensFollowGrammar ==
    parsed # <<>> =>
        LET e == parsed[Len(parsed)]
            t == Stripped(lines[e.line])
        IN  /\ e.args = GrammarTokens(t)
            /\ t = LineExample => e.args = ExampleTokens

C1_Witness ==
    /\ parsed # <<>>
    /\ lines[parsed[Len(parsed)].line] = LineExample
    /\ parsed[Len(parsed)].args = ExampleTokens

(***************************************************************************)
(* C2. A finished script has exactly one entry per line that is not blank,  *)
(* does not begin with `#` or `--` and yields a token, none for any other   *)
(* line, in line order.  The five-line script with a blank second and a     *)
(* comment fourth line yields three entries, for lines 1, 3 and 5.          *)
(***************************************************************************)
C2_OneEntryPerCommandLine ==
    Finished =>
        LET cl == CommandLines
            idx == ScriptIdx
        IN  /\ Len(results) = Len(cl)
            /\ [k \in 1..Len(idx) |-> sent[idx[k]].line] = cl
            /\ query = ScriptFiveLines => cl = <<1, 3, 5>> /\ Len(results) = 3

C2_Witness ==
    /\ Finished
    /\ query = ScriptFiveLines
    /\ Len(results) = 3

(***************************************************************************)
(* C3. The requests sent for a script are the tokenized lines, in order,    *)
(* each once: the first token is the command name, the other tokens are     *)
(* its arguments, unmodified, whatever earlier commands returned.           *)
(***************************************************************************)
C3_SentIsTokenized ==
    LET tokenized == LET HasTokens(e) == e.args # <<>> IN SelectSeq(parsed, HasTokens)
        idx == ScriptIdx
    IN  /\ Len(idx) = Len(tokenized)
        /\ \A k \in 1..Len(idx) :
            LET rq == sent[idx[k]]
            IN  /\ rq.line = tokenized[k].line
                /\ rq.cmd.name = tokenized[k].args[1]
                /\ rq.cmd.args = Tail(tokenized[k].args)
        /\ Finished =>
            LET cl == CommandLines
            IN  /\ Len(idx) = Len(cl)
                /\ \A k \in 1..Len(idx) :
                    <<sent[idx[k]].cmd.name>> \o sent[idx[k]].cmd.args
                        = GrammarTokens(Stripped(lines[cl[k]]))

C3_Witness ==
    /\ Finished
    /\ Len(ScriptIdx) >= 3
    /\ ~replies[ScriptIdx[1]].ok
    /\ sent[ScriptIdx[3]].cmd.args # <<>>

(***************************************************************************)
(* C4. A failing command does not abort the script: once a script command   *)
(* was sent the call ends only after the last line, with success; there is  *)
(* one pair per command; the pair of a failed command holds                 *)
(* `Error: <message>` and the pair of any other command the stringified     *)
(* reply.  Five commands with one failure give five pairs.                  *)
(***************************************************************************)
C4_FailureDoesNotAbort ==
    LET idx == ScriptIdx
    IN  (pc = "done" /\ idx # <<>>) =>
            /\ ret.state = "ok"
            /\ lineIdx = Len(lines)
            /\ Len(results) = Len(idx)
            /\ Len(results) = Len(CommandLines)
            /\ \A k \in 1..Len(idx) :
                LET r == replies[idx[k]]
                IN  IF r.ok
                    THEN results[k].result = redis_value_to_string(r.val, r.conv)
                    ELSE results[k].result = "Error: ERR unknown command"
            /\ query = ScriptFiveCommands => Len(results) = 5

C4_Witness ==
    /\ Finished
    /\ query = ScriptFiveCommands
    /\ Len(results) = 5
    /\ ~replies[2].ok
    /\ results[2].result = "Error: ERR unknown command"
    /\ \A k \in {1, 3, 4, 5} : replies[k].ok
    /\ results[3].result = "v"

(***************************************************************************)
(* C5. At every moment the results are one pair per answered command, in    *)
(* command order, the i-th pair holding the text and the reply of the i-th  *)
(* command; in the end there are as many pairs as tokenized commands.       *)
(***************************************************************************)
C5_PairPerCommandInOrder ==
    LET idx == ScriptIdx
        answered == {k \in 1..Len(idx) : idx[k] <= Len(replies)}
    IN  /\ Len(results) = Cardinality(answered)
        /\ \A k \in 1..Len(results) :
            /\ results[k].command = Stripped(lines[sent[idx[k]].line])
            /\ results[k].result = ResultStr(replies[idx[k]])
        /\ pc = "done" => Len(results) = Len(idx)

C5_Witness ==
    /\ Finished
    /\ Len(results) = 3
    /\ results[1].result # results[2].result
    /\ results[2].result # results[3].result
    /\ results[1].command # results[2].command

(***************************************************************************)
(* C6. The requests of one call go out one at a time on the one connection  *)
(* the call opened: at most one is unanswered, so a request is sent only    *)
(* when every earlier one was answered; script commands follow the AUTH     *)
(* and SELECT of the session set-up, which succeeded.                       *)
(***************************************************************************)
C6_OneInFlightOneSession ==
    /\ InFlight \in {0, 1}
    /\ InFlight = 1 <=> pc \in {"eq_await_auth", "eq_await_select", "eq_await_cmd"}
    /\ conns <= 1
    /\ \A i \in 1..Len(sent) :
        /\ sent[i].conn = 1
        /\ sent[i].line > 0 =>
            /\ \A j \in 1..(i - 1) : sent[j].line = 0 => replies[j].ok
            /\ \A j \in (i + 1)..Len(sent) : sent[j].line > sent[i].line
    /\ ScriptIdx # <<>> =>
        LET setup == SelectSeq(sent, LAMBDA rq : rq.line = 0)
            auth == config.password.some /\ config.password.v # <<>>
            select == config.database.some /\ config.database.v # <<>>
        IN  /\ Len(setup) = (IF auth THEN 1 ELSE 0) + (IF select THEN 1 ELSE 0)
            /\ auth => setup[1].cmd.name = <<"A", "U", "T", "H">>
            /\ select => setup[Len(setup)].cmd.name = <<"S", "E", "L", "E", "C", "T">>

C6_Witness ==
    /\ pc = "eq_await_cmd"
    /\ Len(sent) = 4
    /\ Len(replies) = 3
    /\ sent[1].line = 0
    /\ sent[2].line = 0
    /\ sent[3].line > 0

(***************************************************************************)
(* C7 as claimed: the command field of every pair is the original text of   *)
(* its script line, leading and trailing whitespace included.               *)
(***************************************************************************)
C7_CommandIsOriginalLine ==
    LET idx == ScriptIdx
    IN  \A k \in 1..Len(results) : results[k].command = lines[sent[idx[k]].line]

(***************************************************************************)
(* C7 as amended: the command field of every pair is the text of its        *)
(* script line without the line's leading and trailing whitespace (the      *)
(* original text exactly when the line has none).                           *)
(***************************************************************************)
C7_CommandIsStrippedLine ==
    LET idx == ScriptIdx
    IN  \A k \in 1..Len(results) :
            LET line == lines[sent[idx[k]].line]
            IN  /\ results[k].command = Stripped(line)
                /\ (~IsWhitespace(line[1]) /\ ~IsWhitespace(line[Len(line)]))
                        => results[k].command = line

C7_Witness ==
    /\ results # <<>>
    /\ lines[sent[ScriptIdx[1]].line] = LineSetQuoted
    /\ results[1].command # LineSetQuoted
    /\ Len(results[1].command) = Len(LineSetQuoted) - 2

(***************************************************************************)
(* C8. Stringification of a reply: nil gives `(nil)`; the OK status gives   *)
(* `OK`; any other reply gives the text of the generic String conversion    *)
(* when that succeeds and the debug rendering otherwise.  Every reply has   *)
(* a rendering: each answered command has its pair and the call goes on.    *)
(***************************************************************************)
C8_StringificationOrder ==
    LET idx == ScriptIdx
    IN  /\ \A k \in 1..Len(idx) :
            (idx[k] <= Len(replies) /\ replies[idx[k]].ok) =>
                LET r == replies[idx[k]]
                    out == results[k].result
                IN  /\ k <= Len(results)
                    /\ r.val.kind = "nil" => out = "(nil)"
                    /\ r.val.kind = "okay" => out = "OK"
                    /\ (r.val.kind \notin {"nil", "okay"} /\ r.conv.ok) => out = r.conv.text
                    /\ (r.val.kind \notin {"nil", "okay"} /\ ~r.conv.ok) => out = DebugValue(r.val)
                    /\ r.val = VBulk(<<VData("v"), VNil>>)
                           => out = "bulk(string-data('\"v\"'), nil)"
        /\ (pc = "done" /\ idx # <<>>) => ret.state = "ok"

C8_Witness ==
    /\ Finished
    /\ Len(results) = 3
    /\ replies[1].val = VNil /\ results[1].result = "(nil)"
    /\ replies[2].val = VInt("7") /\ ~replies[2].conv.ok /\ results[2].result = "int(7)"
    /\ replies[3].val = VStatus("PONG") /\ results[3].result = "PONG"

(***************************************************************************)
(* Vocabulary of the properties of alter_table.                             *)
(***************************************************************************)
\* the pieces of a statement that are not empty or a lone blank
Words(sql) == LET Solid(piece) == piece \notin {"", " "} IN SelectSeq(sql, Solid)

Altering(db_type, op_type) ==
    /\ call = "alter_table"
    /\ config.db_type = db_type
    /\ operation.op_type = op_type

(***************************************************************************)
(* C9. Adding a column on postgresql, the add-column statement having       *)
(* succeeded: with a comment exactly two statements are produced, the       *)
(* add-column statement and then a comment statement on the same table and  *)
(* column; without a comment exactly one.                                   *)
(***************************************************************************)
C9_PgAddColumnStatements ==
    (Altering("postgresql", "add") /\ pc = "done" /\ ret.state = "ok") =>
        LET col == operation.column_def.v
        IN  /\ operation.column_def.some
            /\ stmts # <<>>
            /\ stmts[1].sql = <<"ALTER TABLE ", table, " ADD COLUMN ", col.name, " ", col.type_name>>
            /\ IF col.comment.some
               THEN /\ Len(stmts) = 2
                    /\ SubSeq(stmts[2].sql, 1, 5)
                           = <<"COMMENT ON COLUMN ", stmts[1].sql[2], ".", stmts[1].sql[4], " IS '">>
                    /\ stmts[2].conn = stmts[1].conn
               ELSE Len(stmts) = 1

C9_Witness ==
    /\ Altering("postgresql", "add")
    /\ pc = "done"
    /\ ret.state = "ok"
    /\ operation.column_def.v.is_nullable = [some |-> TRUE, v |-> FALSE]
    /\ operation.column_def.v.comment = SomeOpt(<<"a">>)
    /\ operation.column_def.v.name = "c2"
    /\ Len(stmts) = 2

(***************************************************************************)
(* C10. Adding a column on mysql produces one statement, ALTER TABLE        *)
(* <table> ADD COLUMN <name> <type> [NOT NULL|NULL] [DEFAULT <literal>]     *)
(* [PRIMARY KEY] [COMMENT ...], in this order: NOT NULL exactly when        *)
(* is_nullable is false, NULL when it is true or unknown; DEFAULT exactly   *)
(* when there is a default value, PRIMARY KEY exactly when is_pk, the       *)
(* comment clause exactly when there is a comment.                          *)
(***************************************************************************)
C10_MysqlAddColumnStatement ==
    (Altering("mysql", "add") /\ translation.ok) =>
        LET col == operation.column_def.v
            w == Words(translation.sql)
            fixed ==
                <<"ALTER TABLE ", table, " ADD COLUMN ", col.name, col.type_name>>
                    \o (CASE col.is_nullable = NoneBool -> <<"NULL">>
                          [] col.is_nullable = [some |-> TRUE, v |-> TRUE] -> <<"NULL">>
                          [] col.is_nullable = [some |-> TRUE, v |-> FALSE] -> <<"NOT NULL">>)
                    \o (IF col.default_value.some THEN <<"DEFAULT ">> \o col.default_value.v ELSE <<>>)
                    \o (IF col.is_pk THEN <<"PRIMARY KEY">> ELSE <<>>)
        IN  /\ SubSeq(w, 1, Len(fixed)) = fixed
            /\ IF col.comment.some
               THEN /\ Len(w) >= Len(fixed) + 2
                    /\ w[Len(fixed) + 1] = "COMMENT '"
                    /\ w[Len(w)] = "'"
               ELSE Len(w) = Len(fixed)
            /\ Len(stmts) <= 1
            /\ stmts # <<>> => stmts[1].sql = translation.sql
            /\ (pc = "done" /\ ret.state = "ok") => Len(stmts) = 1

C10_Witness ==
    /\ Altering("mysql", "add")
    /\ stmts # <<>>
    /\ Words(stmts[1].sql)
        = <<"ALTER TABLE ", "t", " ADD COLUMN ", "c1", "INT", "NOT NULL", "DEFAULT ", "0",
            "PRIMARY KEY", "COMMENT '", "a", "'">>

\* the operations alter_table knows, and the engines it translates for
KnownOps == {"add", "modify", "drop", "rename", "add_index", "drop_index"}

SqlEngines == {"mysql", "postgresql"}

\* the running operation lacks a payload its op_type needs
RequiredPayloadAbsent ==
    \/ operation.op_type \in {"add", "modify"} /\ ~operation.column_def.some
    \/ operation.op_type \in {"drop", "rename"} /\ ~operation.column_name.some
    \/ operation.op_type = "rename" /\ ~operation.new_name.some
    \/ operation.op_type = "add_index" /\ ~operation.index_def.some
    \/ operation.op_type = "drop_index" /\ ~operation.index_name.some

\* the only statement of the call, if one was sent, is sql; a call that
\* returned success sent it
OnlyStatement(sql) ==
    /\ Len(stmts) <= 1
    /\ stmts # <<>> => stmts[1].sql = sql
    /\ (pc = "done" /\ ret.state = "ok") => Len(stmts) = 1

(***************************************************************************)
(* C11. A call of alter_table whose operation cannot be translated (an      *)
(* op_type that is none of add, modify, drop, rename, add_index,            *)
(* drop_index; an engine that is neither mysql nor postgresql; a required   *)
(* payload that is absent) has returned an error, has opened no connection  *)
(* and has sent no statement.                                               *)
(***************************************************************************)
C11_TranslationFailsBeforeExecution ==
    (/\ call = "alter_table"
     /\ \/ operation.op_type \notin KnownOps
        \/ config.db_type \notin SqlEngines
        \/ RequiredPayloadAbsent) =>
        /\ pc = "done"
        /\ ret.state = "err"
        /\ conns = 0
        /\ stmts = <<>>

C11_Witness ==
    /\ Altering("mysql", "add")
    /\ ~operation.column_def.some
    /\ operation.index_def.some
    /\ ret = RetErr("Missing column definition")
    /\ conns = 0
    /\ stmts = <<>>

(***************************************************************************)
(* C12. Renaming a column, on mysql and on postgresql alike: when the old   *)
(* or the new name is absent the call has returned an error and no          *)
(* statement was sent; when both are present the one statement of the call  *)
(* is ALTER TABLE <table> RENAME COLUMN <old> TO <new>.                      *)
(***************************************************************************)
C12_RenameNeedsBothNames ==
    (call = "alter_table" /\ operation.op_type = "rename" /\ config.db_type \in SqlEngines) =>
        IF ~operation.column_name.some \/ ~operation.new_name.some
        THEN pc = "done" /\ ret.state = "err" /\ stmts = <<>>
        ELSE LET expected == <<"ALTER TABLE ", table, " RENAME COLUMN ",
                                operation.column_name.v, " TO ", operation.new_name.v>>
             IN  /\ translation.ok
                 /\ translation.sql = expected
                 /\ OnlyStatement(expected)

C12_Witness ==
    /\ Altering("postgresql", "rename")
    /\ pc = "done"
    /\ ret.state = "ok"
    /\ Len(stmts) = 1
    /\ stmts[1].sql = <<"ALTER TABLE ", "t", " RENAME COLUMN ", "c1", " TO ", "c2">>

(***************************************************************************)
(* C13. Modifying a column on postgresql with a ColumnDef that carries a    *)
(* comment: the call does not return the plain success a modify without a   *)
(* comment returns; the caller is told the comment was not applied.         *)
(***************************************************************************)
C13_PgModifyCommentReported ==
    (/\ Altering("postgresql", "modify")
     /\ operation.column_def.some
     /\ operation.column_def.v.comment.some
     /\ pc = "done") =>
        ret # RetOk

(***************************************************************************)
(* C14. Adding a column with a comment on postgresql: when the add-column   *)
(* statement succeeded and the comment statement failed, the call has       *)
(* returned success.                                                        *)
(***************************************************************************)
C14_CommentFailureKeepsSuccess ==
    (/\ Altering("postgresql", "add")
     /\ Len(stmtResults) = 2
     /\ stmtResults[1]
     /\ ~stmtResults[2]) =>
        /\ pc = "done"
        /\ ret = RetOk

C14_Witness ==
    /\ Altering("postgresql", "add")
    /\ operation.column_def.v.comment = SomeOpt(<<"a", "'">>)
    /\ Len(stmts) = 2
    /\ stmtResults = <<TRUE, FALSE>>
    /\ ret = RetOk

(***************************************************************************)
(* How the engines read a quoted literal.  Both close it at a quote that    *)
(* is not doubled; mysql in its default sql_mode (no NO_BACKSLASH_ESCAPES)  *)
(* also takes a backslash together with the character after it, postgresql  *)
(* (standard_conforming_strings) takes a backslash as itself.               *)
(***************************************************************************)
BackslashEscapes(db_type) == db_type = "mysql"

\* the position in body, the characters after an opening quote, of the quote
\* that closes the literal; 0 when the literal is not closed
RECURSIVE LiteralEnd(_, _, _)
LiteralEnd(body, i, backslash) ==
    IF i > Len(body) THEN 0
    ELSE IF backslash /\ body[i] = "\\" THEN LiteralEnd(body, i + 2, backslash)
    ELSE IF body[i] = "'"
         THEN IF i < Len(body) /\ body[i + 1] = "'"
              THEN LiteralEnd(body, i + 2, backslash)
              ELSE i
    ELSE LiteralEnd(body, i + 1, backslash)

\* every comment literal of the statement is closed by the statement's last
\* character, the quote the translation puts after the comment
CommentLiteralClosed(sql, db_type) ==
    \A k \in 1..Len(sql) :
        sql[k] \in {"COMMENT '", " IS '"} =>
            LiteralEnd(SubSeq(sql, k + 1, Len(sql)), 1, BackslashEscapes(db_type)) = Len(sql) - k

(***************************************************************************)
(* C15. In every statement of alter_table that carries a column comment     *)
(* (the inline COMMENT clause of mysql add and modify, COMMENT ON COLUMN    *)
(* of postgresql) the comment text stays inside one quoted literal as the   *)
(* engine reads it: the literal ends at the closing quote of the statement  *)
(* and nowhere before or after.                                             *)
(***************************************************************************)
C15_CommentStaysInLiteral ==
    call = "alter_table" =>
        /\ translation.ok => CommentLiteralClosed(translation.sql, config.db_type)
        /\ \A i \in 1..Len(stmts) : CommentLiteralClosed(stmts[i].sql, config.db_type)

\* the pieces of sql from position i up to the next blank
RECURSIVE ClauseFrom(_, _)
ClauseFrom(sql, i) ==
    IF i > Len(sql) \/ sql[i] = " " THEN <<>> ELSE <<sql[i]>> \o ClauseFrom(sql, i + 1)

\* text with esc in the place of each of its quotes
RECURSIVE WithQuotesAs(_, _)
WithQuotesAs(text, esc) ==
    IF text = <<>> THEN <<>>
    ELSE (IF Head(text) = "'" THEN esc ELSE <<Head(text)>>) \o WithQuotesAs(Tail(text), esc)

(***************************************************************************)
(* C16. In the add-column and modify-column statements that carry a         *)
(* DEFAULT clause (mysql) the clause holds the default value with each of   *)
(* its quote characters escaped, doubled or behind a backslash, bare or     *)
(* between quotes.                                                          *)
(***************************************************************************)
C16_DefaultQuotesEscaped ==
    (/\ call = "alter_table"
     /\ config.db_type = "mysql"
     /\ operation.op_type \in {"add", "modify"}
     /\ translation.ok
     /\ operation.column_def.v.default_value.some) =>
        LET sql == translation.sql
            text == operation.column_def.v.default_value.v
        IN  \E k \in 1..Len(sql) :
                /\ sql[k] = "DEFAULT "
                /\ \E esc \in {<<"'", "'">>, <<"\\", "'">>} :
                        ClauseFrom(sql, k + 1) \in
                            {WithQuotesAs(text, esc), <<"'">> \o WithQuotesAs(text, esc) \o <<"'">>}

\* the pieces of a statement between its opening and its closing parenthesis
Parenthesized(sql) ==
    LET open == CHOOSE k \in 1..Len(sql) : sql[k] = " ("
    IN  SubSeq(sql, open + 1, Len(sql) - 1)

\* cols with ", " between each two neighbours
Interleaved(cols) ==
    [i \in 1..(IF cols = <<>> THEN 0 ELSE 2 * Len(cols) - 1) |->
        IF i % 2 = 1 THEN cols[(i + 1) \div 2] ELSE ", "]

(***************************************************************************)
(* C17. Adding an index, on mysql and on postgresql alike, produces one     *)
(* statement CREATE [UNIQUE] INDEX <name> ON <table> (<cols>): UNIQUE is    *)
(* there exactly when is_unique, and the column list is IndexDef.columns,   *)
(* each element once and in the given order, nothing sorted, merged or      *)
(* dropped.                                                                 *)
(***************************************************************************)
C17_AddIndexStatement ==
    (/\ call = "alter_table"
     /\ operation.op_type = "add_index"
     /\ config.db_type \in SqlEngines
     /\ operation.index_def.some) =>
        LET idx == operation.index_def.v
            sql == translation.sql
            w == Words(sql)
            head == <<"CREATE ">> \o (IF idx.is_unique THEN <<"UNIQUE">> ELSE <<>>)
                        \o <<" INDEX ", idx.name, " ON ", table, " (">>
        IN  /\ translation.ok
            /\ SubSeq(w, 1, Len(head)) = head
            /\ sql[Len(sql)] = ")"
            /\ Parenthesized(sql) = Interleaved(idx.columns)
            /\ Len(w) = Len(head) + Len(Interleaved(idx.columns)) + 1
            /\ OnlyStatement(sql)

C17_Witness ==
    /\ Altering("mysql", "add_index")
    /\ operation.index_def.v.columns = <<"c2", "c1">>
    /\ pc = "done"
    /\ ret.state = "ok"
    /\ Len(stmts) = 1
    /\ Words(stmts[1].sql) = <<"CREATE ", "UNIQUE", " INDEX ", "i1", " ON ", "t", " (", "c2", ", ", "c1", ")">>

(***************************************************************************)
(* C18. Dropping an index produces one statement on each engine, of a       *)
(* different shape for the same input: DROP INDEX <index> ON <table> on     *)
(* mysql, DROP INDEX <index> on postgresql, the table not referred to.      *)
(***************************************************************************)
C18_DropIndexPerEngine ==
    (/\ call = "alter_table"
     /\ operation.op_type = "drop_index"
     /\ config.db_type \in SqlEngines
     /\ operation.index_name.some) =>
        LET expected ==
                IF config.db_type = "mysql"
                THEN <<"DROP INDEX ", operation.index_name.v, " ON ", table>>
                ELSE <<"DROP INDEX ", operation.index_name.v>>
        IN  /\ translation.ok
            /\ translation.sql = expected
            /\ config.db_type = "postgresql" =>
                    \A k \in 1..Len(translation.sql) : translation.sql[k] \notin {table, " ON "}
            /\ OnlyStatement(expected)

C18_Witness ==
    /\ Altering("mysql", "drop_index")
    /\ pc = "done"
    /\ ret.state = "ok"
    /\ Len(stmts) = 1
    /\ stmts[1].sql = <<"DROP INDEX ", "i1", " ON ", "t">>

(***************************************************************************)
(* Vocabulary of the properties of the value normalizer.                    *)
(***************************************************************************)
\* the integer-family tags of the two engines
IntegerFamily(engine) ==
    IF engine = "mysql" THEN MysqlSigned \cup MysqlUnsigned ELSE {"INT2", "INT4", "INT8"}

\* the decimal string of an integer
DecimalText(n) == (IF n.neg THEN "-" ELSE "") \o n.mag

\* P(cell, value) for every column of every row converted so far, value
\* being what the row's map holds under the column's name
ForNormalized(P(_, _)) ==
    \A i \in 1..Len(results) :
        \A j \in 1..Len(rows[i]) :
            (\A k \in (j + 1)..Len(rows[i]) : rows[i][k].name # rows[i][j].name) =>
                P(rows[i][j], results[i][rows[i][j].name])

Fetched == call = "execute_query" /\ config.db_type \in SqlEngines /\ pc \in {"sq_rows", "done"}

(***************************************************************************)
(* C19. A non-null value of an integer-family column that lies outside the  *)
(* signed 64-bit range is normalized to the Text of its exact decimal       *)
(* string: not to a number, not to Null.                                    *)
(***************************************************************************)
C19_BeyondSigned64IsText ==
    Fetched =>
        LET TextOfDecimal(cell, value) ==
                (/\ cell.type_name \in IntegerFamily(config.db_type)
                 /\ cell.native.kind = "int"
                 /\ ~Fits("i64", cell.native.n)) =>
                    value = JString(DecimalText(cell.native.n))
        IN  ForNormalized(TextOfDecimal)

(***************************************************************************)
(* C20. A non-null value of an integer-family column of either engine that  *)
(* lies within the signed 64-bit range is normalized to the Integer of      *)
(* exactly that value: not to Null, not to Text, not to another number.     *)
(***************************************************************************)
C20_WithinSigned64IsExact ==
    Fetched =>
        LET SameInteger(cell, value) ==
                (/\ cell.type_name \in IntegerFamily(config.db_type)
                 /\ cell.native.kind = "int"
                 /\ Fits("i64", cell.native.n)) =>
                    value = JNumber(cell.native.n)
        IN  ForNormalized(SameInteger)

(***************************************************************************)
(* C25. The statements of one alter_table call go to one session, in the    *)
(* translated order, each awaited before the next: the first is the         *)
(* translated statement; a comment statement is sent only after the first   *)
(* has succeeded, and only for add on postgresql with a comment; when the   *)
(* first fails the call has returned an error and nothing else was sent.    *)
(***************************************************************************)
C25_CommentOnlyAfterPrimarySuccess ==
    call = "alter_table" =>
        /\ Len(stmts) <= 2
        /\ Len(stmtResults) <= Len(stmts)
        /\ Len(stmts) <= Len(stmtResults) + 1
        /\ \A i \in 1..Len(stmts) : stmts[i].conn = 1 /\ conns = 1
        /\ stmts # <<>> => translation.ok /\ stmts[1].sql = translation.sql
        /\ Len(stmts) = 2 =>
                /\ stmtResults # <<>>
                /\ stmtResults[1]
                /\ operation.op_type = "add"
                /\ config.db_type = "postgresql"
                /\ operation.column_def.v.comment.some
                /\ stmts[2].sql[1] = "COMMENT ON COLUMN "
        /\ (stmtResults # <<>> /\ ~stmtResults[1]) =>
                /\ pc = "done"
                /\ ret.state = "err"
                /\ Len(stmts) = 1

C25_Witness ==
    /\ Altering("postgresql", "add")
    /\ operation.column_def.v.comment = SomeOpt(<<"a">>)
    /\ stmtResults = <<FALSE>>
    /\ Len(stmts) = 1
    /\ pc = "done"
    /\ ret.state = "err"

(***************************************************************************)
(* C27. Every token the script tokenizer emits is non-empty: an empty       *)
(* quoted span yields no token, a line that yields no token sends nothing,  *)
(* and every command sent for a script line has a non-empty name and        *)
(* non-empty arguments.                                                     *)
(***************************************************************************)
C27_TokensNonEmpty ==
    call = "execute_query" =>
        /\ \A i \in 1..Len(parsed) :
                /\ \A j \in 1..Len(parsed[i].args) : parsed[i].args[j] # <<>>
                /\ parsed[i].args = <<>> =>
                        \A k \in 1..Len(sent) : sent[k].line # parsed[i].line
        /\ \A k \in 1..Len(sent) :
                sent[k].line > 0 =>
                    /\ sent[k].cmd.name # <<>>
                    /\ \A j \in 1..Len(sent[k].cmd.args) : sent[k].cmd.args[j] # <<>>

C27_Witness ==
    /\ call = "execute_query"
    /\ query = LineSetEmpty
    /\ Len(sent) = 1
    /\ sent[1].line = 1
    /\ sent[1].cmd = Cmd(<<"S", "E", "T">>, <<<<"k">>>>)

(***************************************************************************)
(* C28. On postgresql the statements of add and of modify are made of the   *)
(* table name, the column name, the type name and, for add, the comment,    *)
(* and of nothing else: is_nullable, default_value and is_pk appear in no   *)
(* statement, so requests that differ only in them send the same            *)
(* statements.                                                              *)
(***************************************************************************)
C28_PgIgnoresNullDefaultPk ==
    (/\ call = "alter_table"
     /\ config.db_type = "postgresql"
     /\ operation.op_type \in {"add", "modify"}
     /\ operation.column_def.some) =>
        LET col == operation.column_def.v
            add == operation.op_type = "add"
            primary ==
                IF add
                THEN <<"ALTER TABLE ", table, " ADD COLUMN ", col.name, " ", col.type_name>>
                ELSE <<"ALTER TABLE ", table, " ALTER COLUMN ", col.name, " TYPE ", col.type_name>>
            followUp ==
                IF add /\ col.comment.some
                THEN <<<<"COMMENT ON COLUMN ", table, ".", col.name, " IS '">>
                            \o WithQuotesAs(col.comment.v, <<"'", "'">>) \o <<"'">>>>
                ELSE <<>>
            all == <<primary>> \o followUp
        IN  /\ translation.ok
            /\ translation.sql = primary
            /\ Len(stmts) <= Len(all)
            /\ \A i \in 1..Len(stmts) : stmts[i].sql = all[i]
            /\ (pc = "done" /\ ret.state = "ok") => Len(stmts) = Len(all)

C28_Witness ==
    /\ Altering("postgresql", "add")
    /\ operation.column_def.v.is_nullable = [some |-> TRUE, v |-> FALSE]
    /\ operation.column_def.v.default_value = SomeOpt(<<"0">>)
    /\ operation.column_def.v.is_pk
    /\ operation.column_def.v.comment = NoneOpt
    /\ pc = "done"
    /\ ret.state = "ok"
    /\ Len(stmts) = 1
    /\ stmts[1].sql = <<"ALTER TABLE ", "t", " ADD COLUMN ", "c1", " ", "INT">>

\* the binary-family tags of the two engines
BinaryFamily(engine) ==
    IF engine = "mysql"
    THEN {"BINARY", "VARBINARY", "TINYBLOB", "BLOB", "MEDIUMBLOB", "LONGBLOB"}
    ELSE {"BYTEA", "VARBINARY", "BINARY", "BLOB"}

\* the byte two uppercase hexadecimal digits stand for, 256 when they are
\* not two such digits
HexByte(s) ==
    LET digits == "0123456789ABCDEF"
        Val(c) == IF \E d \in 1..16 : SubSeq(digits, d, d) = c
                  THEN (CHOOSE d \in 1..16 : SubSeq(digits, d, d) = c) - 1
                  ELSE 256
    IN  IF Len(s) = 2 /\ Val(SubSeq(s, 1, 1)) < 16 /\ Val(SubSeq(s, 2, 2)) < 16
        THEN 16 * Val(SubSeq(s, 1, 1)) + Val(SubSeq(s, 2, 2))
        ELSE 256

\* text, from its position from on, is the hexadecimal digits of the first
\* shown bytes and then rest, and nothing more
HexThenRest(text, from, bytes, shown, rest) ==
    /\ Len(text) = from - 1 + 2 * shown + Len(rest)
    /\ \A k \in 1..shown : HexByte(SubSeq(text, from + 2 * k - 2, from + 2 * k - 1)) = bytes[k]
    /\ SubSeq(text, from + 2 * shown, Len(text)) = rest

\* the cell is not NULL and the driver decodes it into T
Decodes(cell, T) == cell.native.kind # "null" /\ T \in cell.accepts

(***************************************************************************)
(* C22. A cell of a binary-family column that the driver hands out as bytes *)
(* is rendered with a threshold of 32 bytes: of at most 32 bytes, as 0x and *)
(* the uppercase hexadecimal digits of all of them and nothing else; of     *)
(* more, as 0x, the 64 digits of the first 32 bytes, and a marker with the  *)
(* true number of bytes.                                                    *)
(***************************************************************************)
C22_BinaryPreviewOf32 ==
    Fetched =>
        LET Preview(cell, value) ==
                (cell.type_name \in BinaryFamily(config.db_type) /\ Decodes(cell, "Vec<u8>")) =>
                    LET v == cell.native.bytes
                    IN  /\ value.kind = "String"
                        /\ SubSeq(value.s, 1, 2) = "0x"
                        /\ IF Len(v) <= 32
                           THEN HexThenRest(value.s, 3, v, Len(v), "")
                           ELSE HexThenRest(value.s, 3, v, 32,
                                            "... (" \o ToString(Len(v)) \o " bytes)")
        IN  ForNormalized(Preview)

\* a query has returned a row whose binary cell of 33 bytes is shown by 64
\* digits and its length
C22_Witness ==
    /\ Fetched /\ pc = "done" /\ ret = RetOk
    /\ Len(rows) = 1 /\ Len(rows[1]) = 1
    /\ rows[1][1].type_name \in BinaryFamily(config.db_type)
    /\ Decodes(rows[1][1], "Vec<u8>")
    /\ Len(rows[1][1].native.bytes) = 33
    /\ Len(results[1][rows[1][1].name].s) = 2 + 64 + Len("... (33 bytes)")

\* type tags neither engine's match names: text columns and others
OtherTags(engine) ==
    IF engine = "mysql" THEN {"CHAR", "VARCHAR", "TEXT", "ENUM", "GEOMETRY", "DECIMAL"}
    ELSE {"VARCHAR", "TEXT", "UUID", "INET"}

(***************************************************************************)
(* C24. A non-null cell of a column whose type tag no rule names is tried   *)
(* as text first: when the driver hands it out as a string the result is    *)
(* that Text.  Only when it does not, and the driver hands it out as bytes, *)
(* the result is the generic preview: [BLOB: 0x, the uppercase hexadecimal  *)
(* digits of at most the first 16 bytes, ... exactly when there are more    *)
(* than 16 bytes, and ].                                                    *)
(***************************************************************************)
C24_UnknownTagTextThenPreview ==
    Fetched =>
        LET TextFirst(cell, value) ==
                (cell.type_name \in OtherTags(config.db_type) /\ cell.native.kind # "null") =>
                    LET v == cell.native.bytes
                        shown == IF Len(v) > 16 THEN 16 ELSE Len(v)
                    IN  /\ Decodes(cell, "String") => value = JString(cell.native.s)
                        /\ (~Decodes(cell, "String") /\ Decodes(cell, "Vec<u8>")) =>
                                /\ value.kind = "String"
                                /\ SubSeq(value.s, 1, 9) = "[BLOB: 0x"
                                /\ HexThenRest(value.s, 10, v, shown,
                                               IF Len(v) > 16 THEN "...]" ELSE "]")
        IN  ForNormalized(TextFirst)

\* a query has returned a row whose cell of an unnamed type, 16 bytes that
\* are no string, is shown whole and without the marker
C24_Witness ==
    /\ Fetched /\ pc = "done" /\ ret = RetOk
    /\ Len(rows) = 1 /\ Len(rows[1]) = 1
    /\ rows[1][1].type_name \in OtherTags(config.db_type)
    /\ ~Decodes(rows[1][1], "String") /\ Decodes(rows[1][1], "Vec<u8>")
    /\ Len(rows[1][1].native.bytes) = 16
    /\ Len(results[1][rows[1][1].name].s) = Len("[BLOB: 0x") + 32 + Len("]")

\* the position of the last column of the row that has the name
LastNamed(row, name) == CHOOSE j \in 1..Len(row) :
    /\ row[j].name = name
    /\ \A k \in (j + 1)..Len(row) : row[k].name # name

(***************************************************************************)
(* C29. Each row's map is keyed by column name with one entry per distinct  *)
(* name: when several columns of a row have one name the entry holds the    *)
(* value of the last of them, and no entry holds an earlier one's.  The     *)
(* maps are in the order of the driver's records, and a call that returns   *)
(* rows returns as many maps as the driver returned records.                *)
(***************************************************************************)
C29_OneEntryPerNameLastWins ==
    Fetched =>
        /\ Len(results) <= Len(rows)
        /\ \A i \in 1..Len(results) :
                /\ DOMAIN results[i] = {rows[i][j].name : j \in 1..Len(rows[i])}
                /\ \A name \in DOMAIN results[i] :
                        results[i][name] =
                            Normalize(config.db_type, rows[i][LastNamed(rows[i], name)])
        /\ (pc = "done" /\ ret = RetOk) => Len(results) = Len(rows)

\* a query has returned three rows in each of which a name occurs twice
C29_Witness ==
    /\ Fetched /\ pc = "done" /\ ret = RetOk
    /\ Len(rows) = 3 /\ Len(results) = 3
    /\ \A i \in 1..3 : \E j \in 1..Len(rows[i]) : \E k \in (j + 1)..Len(rows[i]) :
            /\ rows[i][j].name = rows[i][k].name
            /\ Normalize(config.db_type, rows[i][j]) # Normalize(config.db_type, rows[i][k])
            /\ results[i][rows[i][k].name] = Normalize(config.db_type, rows[i][k])

\* the temporal tags of the two engines
TemporalTags(engine) ==
    IF engine = "mysql" THEN {"TIMESTAMP", "DATETIME", "DATE", "TIME"}
    ELSE {"TIMESTAMP", "TIMESTAMPTZ", "DATE", "TIME", "TIMETZ"}

(***************************************************************************)
(* C23. For every temporal tag of either engine: a non-null cell whose      *)
(* structured temporal decode fails while the driver hands the cell out as  *)
(* a string is normalized to the Text of that string, verbatim, and not to  *)
(* Null.                                                                    *)
(***************************************************************************)
C23_TemporalFallsBackToText ==
    Fetched =>
        LET Verbatim(cell, value) ==
                (/\ cell.type_name \in TemporalTags(config.db_type)
                 /\ ~(\E T \in ChronoTypes : Decodes(cell, T))
                 /\ Decodes(cell, "String")) =>
                    value = JString(cell.native.s)
        IN  ForNormalized(Verbatim)

\* the Rust types that are the decode proper to a type tag: the fallbacks
\* of the tag are the decodes as a string and as bytes that are not among
\* them
PrimaryTypes(type_name) ==
    IF type_name \in {"BOOLEAN", "BOOL"} THEN {"bool"}
    ELSE IF type_name \in IntegerFamily("mysql") \cup IntegerFamily("postgresql") \cup {"BIT", "YEAR"}
    THEN IntTypes
    ELSE IF type_name \in {"FLOAT", "DOUBLE", "REAL", "NUMERIC", "FLOAT4", "FLOAT8", "MONEY"}
    THEN {"f64"}
    ELSE IF type_name \in {"JSON", "JSONB"} THEN {"Json"}
    ELSE IF type_name \in TemporalTags("mysql") \cup TemporalTags("postgresql") THEN ChronoTypes
    ELSE IF type_name \in BinaryFamily("mysql") \cup BinaryFamily("postgresql") THEN {"Vec<u8>"}
    ELSE {"String"}

(***************************************************************************)
(* C21. A non-null cell becomes Null only if every fallback fails too: for  *)
(* every type tag of either engine, when the decode proper to the tag fails *)
(* and the driver hands the cell out as a string, the result is that Text,  *)
(* and when it hands it out only as bytes, the result is a preview of the   *)
(* bytes; in neither case Null.  No failure to decode a cell ends the call: *)
(* once the rows are fetched the call returns a map for each.               *)
(***************************************************************************)
C21_NullOnlyIfEveryFallbackFails ==
    Fetched =>
        /\ LET Fallback(cell, value) ==
                   (/\ cell.native.kind # "null"
                    /\ \A T \in PrimaryTypes(cell.type_name) :
                            ~TryGet(config.db_type, T, cell).ok) =>
                        /\ Decodes(cell, "String") => value = JString(cell.native.s)
                        /\ (~Decodes(cell, "String") /\ Decodes(cell, "Vec<u8>")) =>
                                value.kind = "String" /\ Contains(value.s, "0x")
           IN  ForNormalized(Fallback)
        /\ (pc = "done" /\ rows # <<>>) => (ret = RetOk /\ Len(results) = Len(rows))

(***************************************************************************)
(* Vocabulary of the properties of get_tables.                              *)
(***************************************************************************)
TablesFetched == call = "get_tables" /\ pc \in {"gt_rows", "done"}

\* 2^63 <= v
AtLeastTwo63(v) == v.b > 1 \/ (v.b = 1 /\ v.o >= 0)

\* x < 0
Negative(x) == x.b < 0 \/ (x.b = 0 /\ x.o < 0)

\* v - 2^64
MinusTwo64(v) == Big(v.b - 2, v.o)

(***************************************************************************)
(* C26. get_tables on mysql reports DATA_LENGTH, INDEX_LENGTH and           *)
(* TABLE_ROWS through a cast from u64 to i64 that wraps silently: a value v *)
(* with 2^63 <= v < 2^64 is reported as the negative number v - 2^64, a     *)
(* value below 2^63 is reported unchanged; the result is a number in both   *)
(* cases, and the cast makes no call fail: a call fails only in connecting  *)
(* or fetching, before any row is read.                                     *)
(***************************************************************************)
C26_MetadataCastWraps ==
    TablesFetched =>
        LET Reported(read, reported) ==
                /\ reported.some = read.some
                /\ read.some =>
                        IF AtLeastTwo63(read.v)
                        THEN reported.v = MinusTwo64(read.v) /\ Negative(reported.v)
                        ELSE reported.v = read.v
        IN  /\ Len(tables) <= Len(rows)
            /\ \A k \in 1..Len(tables) :
                    /\ Reported(rows[k].data_len, tables[k].data_size)
                    /\ Reported(rows[k].index_len, tables[k].index_size)
                    /\ Reported(rows[k].table_rows, tables[k].row_count)
            /\ ret.state = "err" => (rows = <<>> /\ tables = <<>>)
            /\ (pc = "done" /\ ret = RetOk) => Len(tables) = Len(rows)

\* a call has returned a table whose DATA_LENGTH 2^63 is reported as -2^63,
\* whose INDEX_LENGTH 2^64 - 1 as -1 and whose TABLE_ROWS 2^63 - 1 as it is
C26_Witness ==
    /\ TablesFetched /\ pc = "done" /\ ret = RetOk
    /\ Len(rows) = 1
    /\ rows[1].data_len = SomeNum(Big(1, 0))
    /\ tables[1].data_size = SomeNum(Big(-1, 0))
    /\ rows[1].index_len = SomeNum(Big(2, -1))
    /\ tables[1].index_size = SomeNum(Big(0, -1))
    /\ rows[1].table_rows = SomeNum(Big(1, -1))
    /\ tables[1].row_count = SomeNum(Big(1, -1))

(***************************************************************************)
(* Vocabulary of the properties of the connection store.                    *)
(***************************************************************************)
\* the list the file holds
Stored(f) == ReadConnections(f)

\* the list holds the id
Holds(list, i) == \E k \in 1..Len(list) : list[k].id = i

\* the list has one profile per id: for each id the profile last saved and
\* not deleted since, and none for the other ids
IsLatest(list) ==
    /\ \A j, k \in 1..Len(list) : list[j].id = list[k].id => j = k
    /\ \A k \in 1..Len(list) :
            list[k].id \in Ids /\ history.latest[list[k].id] = SomeProfile(list[k])
    /\ \A i \in Ids : history.latest[i].some => Holds(list, i)

\* a step in which the command returns Ok
Succeeds(command) == pc = "idle" /\ call' = command /\ ret' = RetOk

(***************************************************************************)
(* C30. The connection store, from no file.  As long as every save and      *)
(* delete has succeeded, the stored list has at most one profile per id,    *)
(* namely for each id the profile of the last save_connection of the id     *)
(* that no delete_connection of the id followed, and get_connections        *)
(* returns that list.  A save_connection of an id the list holds replaces   *)
(* the profile where it stands, position and other profiles unchanged, and  *)
(* of another id appends it; a delete_connection of an id the list does not *)
(* hold leaves the list as it is.                                           *)
(***************************************************************************)
C30_StoreKeepsLatestPerId ==
    /\ [](history.clean =>
            /\ IsLatest(Stored(file))
            /\ (call = "get_connections" /\ ret = RetOk) => listed = Stored(file))
    /\ [][/\ Succeeds("save_connection") =>
                LET old == Stored(file)
                    new == Stored(file')
                IN  IF Holds(old, config'.id)
                    THEN /\ Len(new) = Len(old)
                         /\ \A k \in 1..Len(old) :
                                new[k] = IF old[k].id = config'.id THEN config' ELSE old[k]
                    ELSE new = Append(old, config')
           /\ (Succeeds("delete_connection") /\ ~Holds(Stored(file), id')) =>
                Stored(file') = Stored(file)]_vars

\* a save has replaced the first of two stored profiles where it stood
C30_Witness ==
    /\ call = "save_connection" /\ pc = "done" /\ ret = RetOk /\ history.clean
    /\ Len(Stored(file)) = 2
    /\ Stored(file)[1] = config
    /\ Stored(file)[2].id # config.id

====
